---------------------------- MODULE Spec2Model ----------------------------
(***************************************************************************)
(* Model of the differential-privacy (anonymization) query rewriter of     *)
(* zetasql/analyzer/anonymization_rewriter.cc.                             *)
(*                                                                         *)
(* The rewriter is a synchronous, single threaded tree transform.  The     *)
(* resolved AST is modelled as nested records, visitors as RECURSIVE       *)
(* operators that thread the mutable state shared by the visitors (the     *)
(* column allocator, resolved_table_scans_, with_entries_ and the status   *)
(* of the first failure) through the traversal.                            *)
(***************************************************************************)
EXTENDS Integers, Sequences, FiniteSets, TLC

VARIABLES
    pc,      \* position of the invocation: which step runs next
    node,    \* the (read-only) input: a resolved scan
    config,  \* analyzer / language options of the invocation
    fr       \* working state of the invocation and, at the end, its result

vars == <<pc, node, config, fr>>

---------------------------------------------------------------------------
(* Sequence helpers *)

Range(s) == {s[i] : i \in 1..Len(s)}

SeqOf(S, n) == UNION {[1..k -> S] : k \in 0..n}

\* std::find: 1-based index of the first element satisfying Test, Len+1 (end) if none.
FirstIndex(s, Test(_)) ==
    IF \E i \in 1..Len(s) : Test(s[i])
    THEN CHOOSE i \in 1..Len(s) : Test(s[i]) /\ \A j \in 1..(i-1) : ~Test(s[j])
    ELSE Len(s) + 1

InsertAt(s, i, e) == SubSeq(s, 1, i - 1) \o <<e>> \o SubSeq(s, i, Len(s))

\* SelectWithModeName: the name of the mode and whether it takes the article "a".
SelectWithModeNames == {"ANONYMIZATION", "DIFFERENTIAL_PRIVACY"}

uses_a_article(name) == name = "DIFFERENTIAL_PRIVACY"

AsciiStrToLower(name) ==
    IF name = "ANONYMIZATION" THEN "anonymization" ELSE "differential_privacy"

---------------------------------------------------------------------------
(* Types, values, columns *)

\* Type::SupportsGrouping / Type::SupportsEquality for the types of the model.
GroupableTypes == {"INT64", "UINT64", "STRING"}
EquatableTypes == {"INT64", "UINT64", "STRING"}

SupportsGrouping(type) == type \in GroupableTypes
SupportsEquality(type) == type \in EquatableTypes

\* An int64 Value in two limbs, value = hi * 2^31 + lo with 0 <= lo < 2^31, so that
\* values on both sides of the int32 range are represented exactly.
Int64(n) == [null |-> FALSE, hi |-> 0, lo |-> n]
Int64Hi(h, n) == [null |-> FALSE, hi |-> h, lo |-> n]
NullInt64 == [null |-> TRUE, hi |-> 0, lo |-> 0]
ValueLess(a, b) == a.hi < b.hi \/ (a.hi = b.hi /\ a.lo < b.lo)

\* std::numeric_limits<int32_t>::max()
Int32Max == Int64(2147483647)

\* ResolvedColumn.  A default constructed column is not initialized (id 0);
\* operator== compares column ids.
NoColumn == [id |-> 0, name |-> "", type |-> "NONE"]
IsInitialized(c) == c.id > 0
Col(id, name, type) == [id |-> id, name |-> name, type |-> type]
ColEq(a, b) == a.id = b.id
ColumnListContains(cols, c) == \E i \in 1..Len(cols) : ColEq(cols[i], c)

---------------------------------------------------------------------------
(* Expressions *)

NullExpr == [kind |-> "null"]
ColumnRef(c) == [kind |-> "ColumnRef", column |-> c, type |-> c.type]
Literal(type, value) == [kind |-> "Literal", type |-> type, value |-> value]
\* A scalar function call of the input; sig is the signature's context id,
\* builtin is function->IsScalar() && function->IsZetaSQLBuiltin().
FunctionCall(sig, args) ==
    [kind |-> "FunctionCall", sig |-> sig, builtin |-> TRUE, args |-> args]
UdfCall(sig, args) ==
    [kind |-> "FunctionCall", sig |-> sig, builtin |-> FALSE, args |-> args]
FunctionCallOfType(sig, args, type) ==
    [kind |-> "FunctionCall", sig |-> sig, builtin |-> TRUE, args |-> args,
     type |-> type]
ComputedColumn(c, e) == [column |-> c, expr |-> e]

GetStructField(expr, field_idx, type) ==
    [kind |-> "GetStructField", expr |-> expr, field_idx |-> field_idx, type |-> type]

GetProtoField(expr, field, type) ==
    [kind |-> "GetProtoField", expr |-> expr, field |-> field, type |-> type]


StringValue(str) == [null |-> FALSE, str |-> str]

MakeColRef(c) == ColumnRef(c)

---------------------------------------------------------------------------
(* Status and the state shared by the visitors of one invocation *)

Ok == [code |-> "OK", msg |-> ""]
UserError(msg) == [code |-> "INVALID_ARGUMENT", msg |-> msg]
InternalError(msg) == [code |-> "INTERNAL", msg |-> msg]
IsOk(status) == status.code = "OK"

\* ColumnFactory: ids come from max_col_id, or from the shared sequence when
\* there is one (seq >= 0).
NoSequence == 0 - 1

InitState(max_col_id, seq) ==
    [status |-> Ok,
     select_with_mode_name |-> "ANONYMIZATION",
     max_col_id |-> max_col_id,
     seq |-> seq,
     resolved_table_scans |-> << >>,
     with_entries |-> << >>,
     scan_map |-> << >>]

Fail(st, status) == [st EXCEPT !.status = status]

\* ColumnFactory::MakeCol: the next id is greater than every id seen so far.
MakeColId(st) ==
    IF st.seq = NoSequence THEN st.max_col_id + 1
    ELSE IF st.seq > st.max_col_id THEN st.seq ELSE st.max_col_id + 1

\* The sequence is left where it was.
MakeColStateSequenceKept(st) == [st EXCEPT !.max_col_id = MakeColId(st)]

MakeColState(st) ==
    [st EXCEPT !.max_col_id = MakeColId(st),
               !.seq = IF st.seq = NoSequence THEN NoSequence ELSE MakeColId(st) + 1]

MakeCol(st, name, type) == Col(MakeColId(st), name, type)

---------------------------------------------------------------------------
(* Catalog: tables and their privacy unit (AnonymizationInfo) *)

\* The struct types of the value tables: their fields.
StructTypes ==
    [STRUCT_V |-> <<[name |-> "a", type |-> "INT64"], [name |-> "uid", type |-> "INT64"]>>,
     STRUCT_N |-> <<[name |-> "id", type |-> "STRUCT_V"], [name |-> "b", type |-> "INT64"]>>,
     STRUCT_J |-> <<[name |-> "uid", type |-> "JSON"]>>]
IsStruct(type) == type \in DOMAIN StructTypes
\* StructType::FindField: the index of the field of that name.
FindField(type, name) ==
    CHOOSE i \in 1..Len(StructTypes[type]) : StructTypes[type][i].name = name

\* userid = 0: the table carries no privacy-unit metadata; otherwise the index
\* of the physical column that is the privacy unit.
Catalog ==
    [T1 |-> [columns |-> <<[name |-> "uid", type |-> "INT64"],
                           [name |-> "x", type |-> "INT64"]>>, userid |-> 1],
     T2 |-> [columns |-> <<[name |-> "y", type |-> "INT64"],
                           [name |-> "uid", type |-> "INT64"]>>, userid |-> 2],
     T3 |-> [columns |-> <<[name |-> "z", type |-> "INT64"],
                           [name |-> "k", type |-> "INT64"]>>, userid |-> 0],
     T4 |-> [columns |-> <<[name |-> "uid", type |-> "UINT64"],
                           [name |-> "w", type |-> "INT64"]>>, userid |-> 1],
     T5 |-> [columns |-> <<[name |-> "uid", type |-> "JSON"],
                           [name |-> "v", type |-> "INT64"]>>, userid |-> 1]]

\* Value tables: their first column is the row value, and the privacy unit is
\* named by a path of fields of that value.
ValueTables ==
    [V1 |-> [columns |-> <<[name |-> "value", type |-> "STRUCT_V"]>>,
             userid_column_name_path |-> <<"uid">>],
     V2 |-> [columns |-> <<[name |-> "value", type |-> "STRUCT_N"]>>,
             userid_column_name_path |-> <<"id", "uid">>],
     V5 |-> [columns |-> <<[name |-> "value", type |-> "STRUCT_J"]>>,
             userid_column_name_path |-> <<"uid">>]]
IsValueTable(table) == table \in DOMAIN ValueTables

SupportsAnonymization(table) == IsValueTable(table) \/ Catalog[table].userid # 0

---------------------------------------------------------------------------
(* Scan nodes *)

NullScan == [kind |-> "null", cols |-> << >>]

TableScan(table, cols, column_index_list, alias) ==
    [kind |-> "TableScan", cols |-> cols, table |-> table,
     column_index_list |-> column_index_list, alias |-> alias]

FilterScan(cols, input, filter_expr) ==
    [kind |-> "FilterScan", cols |-> cols, input |-> input, filter_expr |-> filter_expr]

ProjectScan(cols, expr_list, input) ==
    [kind |-> "ProjectScan", cols |-> cols, expr_list |-> expr_list, input |-> input]

JoinScan(cols, join_type, left, right, join_expr) ==
    [kind |-> "JoinScan", cols |-> cols, join_type |-> join_type,
     left |-> left, right |-> right, join_expr |-> join_expr]

SetOperationItem(scan, output_column_list) ==
    [kind |-> "SetOperationItem", scan |-> scan,
     output_column_list |-> output_column_list]

SetOperationScan(cols, op_type, input_item_list) ==
    [kind |-> "SetOperationScan", cols |-> cols, op_type |-> op_type,
     input_item_list |-> input_item_list]

add_column_list(scan, c) == [scan EXCEPT !.cols = Append(@, c)]

Option(name, value) == [name |-> name, value |-> value]

\* ResolvedAnonymizedAggregateScan / ResolvedDifferentialPrivacyAggregateScan;
\* family is "ANONYMIZATION" or "DIFFERENTIAL_PRIVACY".
PrivateAggregateScan(family, cols, input, group_by_list, aggregate_list, threshold, options, is_ordered) ==
    [kind |-> "PrivateAggregateScan", family |-> family, cols |-> cols,
     input |-> input, group_by_list |-> group_by_list,
     aggregate_list |-> aggregate_list, threshold |-> threshold,
     options |-> options, is_ordered |-> is_ordered]

AggregateScan(cols, input, group_by_list, aggregate_list) ==
    [kind |-> "AggregateScan", cols |-> cols, input |-> input,
     group_by_list |-> group_by_list, aggregate_list |-> aggregate_list]

SampleScan(cols, input, method, size, unit, partition_by_list) ==
    [kind |-> "SampleScan", cols |-> cols, input |-> input, method |-> method,
     size |-> size, unit |-> unit, partition_by_list |-> partition_by_list]

UidCol == Col(1, "uid", "INT64")

XCol == Col(2, "x", "INT64")

Lit(n) == Literal("INT64", Int64(n))

Epsilon == Option("epsilon", Literal("DOUBLE", Int64(1)))

\* T1 with and without its uid selected, and T3, which has no privacy unit.
T1WithUid == TableScan("T1", <<UidCol, XCol>>, <<1, 2>>, "")

T1WithoutUid == TableScan("T1", <<XCol>>, <<2>>, "")

T3Scan == TableScan("T3", <<Col(1, "z", "INT64"), XCol>>, <<1, 2>>, "")

---------------------------------------------------------------------------
(* UidColumnState *)

NoUid == [column |-> NoColumn, alias |-> "", value_table_uid |-> NullExpr]

WithEntry(with_query_name, with_subquery) ==
    [kind |-> "WithEntry", with_query_name |-> with_query_name,
     with_subquery |-> with_subquery]
NullEntry == [kind |-> "null"]

WithScan(cols, with_entry_list, query, recursive, is_ordered) ==
    [kind |-> "WithScan", cols |-> cols, with_entry_list |-> with_entry_list,
     query |-> query, recursive |-> recursive, is_ordered |-> is_ordered]

WithRefScan(cols, with_query_name) ==
    [kind |-> "WithRefScan", cols |-> cols, with_query_name |-> with_query_name]

\* WithEntryRewriteState
WithEntryRewriteState(original_entry) ==
    [original_entry |-> original_entry, rewritten_entry |-> NullEntry,
     rewritten_entry_owned |-> NullEntry, rewritten_uid |-> NoUid]

SetColumn(uid, c) == [uid EXCEPT !.column = c]
SetColumnAlias(uid, c, alias) == [uid EXCEPT !.column = c, !.alias = alias]

ProjectIfMissingAlways(uid, scan) == add_column_list(scan, uid.column)

\* UidColumnState::ProjectIfMissing
ProjectIfMissing(uid, scan) ==
    IF ColumnListContains(scan.cols, uid.column) THEN scan
    ELSE add_column_list(scan, uid.column)

\* UidColumnState::MatchesPathExpression (a uid that is a column; the field
\* path of a value table is compared structurally).
MatchesPathExpression(uid, other) ==
    IF uid.value_table_uid = NullExpr
    THEN other.kind = "ColumnRef" /\ ColEq(other.column, uid.column)
    ELSE other = uid.value_table_uid

\* Result of a visit of the per-user visitor: the node on top of its stack,
\* its current_uid_, and the shared state.
Visited(scan, uid, st) == [scan |-> scan, uid |-> uid, st |-> st]
Failed(st, status) == Visited(NullScan, NoUid, Fail(st, status))

---------------------------------------------------------------------------
(* Resolver::ResolveFunctionCallWithResolvedArguments, as used through      *)
(* ResolveFunctionCall: a call of the named function over the already       *)
(* resolved arguments.  Calls built by the rewriter are well formed, so the *)
(* resolution succeeds.                                                     *)

ResolveFunctionCall(kind, function_name, arguments, named_arguments, type) ==
    [kind |-> kind, function |-> function_name, args |-> arguments,
     named |-> named_arguments, type |-> type]

---------------------------------------------------------------------------
(* PerUserRewriterVisitor *)

RECURSIVE PerUserVisit(_, _)

ValidateUidColumnSupportsGrouping(uid) ==
    IF SupportsGrouping(uid.column.type) THEN Ok
    ELSE UserError("User id columns must support grouping")

\* The position in column_list of the table column with index j, or end.
TableColumnPosition(scan, j) ==
    FirstIndex(scan.column_index_list, LAMBDA k : k = j)

\* ProjectValueTableScanRowValueIfNeeded: the scan with the row value in its
\* column list, the column of the row value and the state of the allocator.
ProjectValueTableScanRowValueIfNeeded(scan, st) ==
    LET i == TableColumnPosition(scan, 1)
        type == ValueTables[scan.table].columns[1].type
    IN IF i <= Len(scan.cols)
       THEN [scan |-> scan, column |-> scan.cols[i], st |-> st]
       ELSE [scan |-> [scan EXCEPT !.cols = Append(@, MakeCol(st, "$value", type)),
                                   !.column_index_list = Append(@, 1)],
             column |-> MakeCol(st, "$value", type),
             st |-> MakeColState(st)]

\* MakeGetFieldComputedColumn over a struct value: one field access and one
\* allocated column for each name of the path; the last column is the one of
\* the computed column.
RECURSIVE MakeGetFieldComputedColumn(_, _, _, _)
MakeGetFieldComputedColumn(userid_column_name_path, userid_column, expr, st) ==
    IF userid_column_name_path = << >>
    THEN [computed |-> ComputedColumn(userid_column, expr), st |-> st]
    ELSE LET found_idx == FindField(expr.type, Head(userid_column_name_path))
             field == StructTypes[expr.type][found_idx]
         IN MakeGetFieldComputedColumn(
                Tail(userid_column_name_path),
                MakeCol(st, "$" \o field.name, field.type),
                GetStructField(expr, found_idx, field.type),
                MakeColState(st))

\* UidColumnState::InitFromValueTable
InitFromValueTable(projected_userid_column, value_table_alias) ==
    [column |-> projected_userid_column.column, alias |-> value_table_alias,
     value_table_uid |-> projected_userid_column.expr]

\* PerUserRewriterVisitor::VisitResolvedTableScan for a value table: the uid
\* is a field of the row value, computed by a ProjectScan over the table scan.
VisitValueTableScan(scan, st) ==
    LET row == ProjectValueTableScanRowValueIfNeeded(scan, st)
        made == MakeGetFieldComputedColumn(
                    ValueTables[scan.table].userid_column_name_path,
                    row.column, MakeColRef(row.column), row.st)
        uid == InitFromValueTable(made.computed, scan.alias)
        st1 == [made.st EXCEPT !.resolved_table_scans = Append(@, row.scan)]
        status == ValidateUidColumnSupportsGrouping(uid)
    IN IF IsOk(status)
       THEN Visited(ProjectScan(Append(row.scan.cols, uid.column),
                                <<made.computed>>, row.scan), uid, st1)
       ELSE Failed(st1, status)

\* PerUserRewriterVisitor::VisitResolvedTableScan
VisitResolvedTableScan(scan, st) ==
    IF ~SupportsAnonymization(scan.table) THEN Visited(scan, NoUid, st)
    ELSE IF IsValueTable(scan.table) THEN VisitValueTableScan(scan, st)
    ELSE
      LET table == Catalog[scan.table]
          table_col == table.columns[table.userid]
          i == TableColumnPosition(scan, table.userid)
          uid0 == [NoUid EXCEPT !.alias = scan.alias]
      IN IF i <= Len(scan.cols)
         THEN \* the original query selects the $uid column: reuse it
              LET uid == SetColumn(uid0, scan.cols[i])
                  st1 == [st EXCEPT !.resolved_table_scans = Append(@, scan)]
                  status == ValidateUidColumnSupportsGrouping(uid)
              IN IF IsOk(status) THEN Visited(scan, uid, st1) ELSE Failed(st1, status)
         ELSE LET c == MakeCol(st, table_col.name, table_col.type)
                  uid == SetColumn(uid0, c)
                  copy == [scan EXCEPT !.cols = Append(@, c),
                                       !.column_index_list = Append(@, table.userid)]
                  st1 == [MakeColState(st) EXCEPT
                             !.resolved_table_scans = Append(@, copy)]
                  status == ValidateUidColumnSupportsGrouping(uid)
              IN IF IsOk(status) THEN Visited(copy, uid, st1) ELSE Failed(st1, status)

\* A table-valued function scan; signature is the signature of the call:
\* the columns of its result schema, whether the result is a value table and
\* the name path of the userid column of its AnonymizationInfo (empty when
\* there is none).  column_index_list holds positions in the result schema.
TVFSignature(columns, is_value_table, userid_column_name_path) ==
    [columns |-> columns, is_value_table |-> is_value_table,
     userid_column_name_path |-> userid_column_name_path]
TVFScan(cols, tvf, signature, column_index_list, alias) ==
    [kind |-> "TVFScan", cols |-> cols, tvf |-> tvf, signature |-> signature,
     column_index_list |-> column_index_list, alias |-> alias]
SignatureSupportsAnonymization(signature) == signature.userid_column_name_path # << >>

\* The position in the result schema of the column of that name, or end.
SchemaPosition(signature, name) ==
    FirstIndex(signature.columns, LAMBDA column : column.name = name)

\* The position at which the uid column is inserted: that of the first
\* projected index greater than the index of the uid column, and the front
\* when there is none.
UseridColumnInsertionIndex(column_index_list, tvf_userid_column_index) ==
    LET i == FirstIndex(column_index_list, LAMBDA k : k > tvf_userid_column_index)
    IN IF i <= Len(column_index_list) THEN i ELSE 1

\* PerUserRewriterVisitor::VisitResolvedTVFScan for a result that is a value
\* table: the uid is a field of the row value, computed by a ProjectScan.
VisitValueTVFScan(scan, st) ==
    LET projected == Len(scan.cols) > 0
        value_column == IF projected THEN scan.cols[1]
                        ELSE MakeCol(st, "$value", scan.signature.columns[1].type)
        copy == IF projected THEN scan
                ELSE [scan EXCEPT !.cols = Append(@, value_column),
                                  !.column_index_list = Append(@, 1)]
        made == MakeGetFieldComputedColumn(
                    scan.signature.userid_column_name_path, value_column,
                    MakeColRef(value_column),
                    IF projected THEN st ELSE MakeColState(st))
        uid == InitFromValueTable(made.computed, scan.alias)
        status == ValidateUidColumnSupportsGrouping(uid)
    IN IF IsOk(status)
       THEN Visited(ProjectScan(Append(copy.cols, uid.column), <<made.computed>>, copy),
                    uid, made.st)
       ELSE Failed(made.st, status)

\* PerUserRewriterVisitor::VisitResolvedTVFScan
VisitResolvedTVFScan(scan, st) ==
    IF ~SignatureSupportsAnonymization(scan.signature) THEN Visited(scan, NoUid, st)
    ELSE IF scan.signature.is_value_table THEN VisitValueTVFScan(scan, st)
    ELSE IF Len(scan.signature.userid_column_name_path) > 1
    THEN Failed(st, UserError("Nested user IDs are not currently supported for TVFs (in TVF "
                              \o scan.tvf \o ")"))
    ELSE
      LET userid_column_name == scan.signature.userid_column_name_path[1]
          i == FirstIndex(scan.column_index_list,
                          LAMBDA k : scan.signature.columns[k].name = userid_column_name)
          tvf_userid_column_index == SchemaPosition(scan.signature, userid_column_name)
      IN IF i <= Len(scan.cols)
         THEN \* already projected
              Visited(scan, SetColumnAlias(NoUid, scan.cols[i], scan.alias), st)
         ELSE IF tvf_userid_column_index > Len(scan.signature.columns)
         THEN Failed(st, UserError("The " \o AsciiStrToLower(st.select_with_mode_name)
                  \o " userid column " \o userid_column_name \o " defined for TVF "
                  \o scan.tvf \o " was not found in the output schema of the TVF"))
         ELSE LET uid_column ==
                      MakeCol(st, userid_column_name,
                              scan.signature.columns[tvf_userid_column_index].type)
                  at == UseridColumnInsertionIndex(scan.column_index_list,
                                                   tvf_userid_column_index)
              IN Visited([scan EXCEPT
                             !.cols = InsertAt(@, at, uid_column),
                             !.column_index_list =
                                 InsertAt(@, at, tvf_userid_column_index)],
                         SetColumnAlias(NoUid, uid_column, scan.alias),
                         MakeColState(st))

\* A scalar, IN or EXISTS subquery expression.
SubqueryExpr(subquery_type, subquery, type) ==
    [kind |-> "SubqueryExpr", subquery_type |-> subquery_type,
     subquery |-> subquery, type |-> type]

\* The first status of the sequence that is not ok.
FirstFailure(statuses) ==
    IF \A i \in 1..Len(statuses) : IsOk(statuses[i]) THEN Ok
    ELSE statuses[CHOOSE i \in 1..Len(statuses) :
                      ~IsOk(statuses[i]) /\ \A j \in 1..(i - 1) : IsOk(statuses[j])]

RECURSIVE Flatten(_)
Flatten(seqs) == IF seqs = << >> THEN << >> ELSE seqs[1] \o Flatten(Tail(seqs))

\* The subquery expressions of an expression, in the order of the visit.
RECURSIVE SubqueryExprs(_)
SubqueryExprs(expr) ==
    CASE expr.kind = "SubqueryExpr" -> <<expr>>
      [] expr.kind \in {"FunctionCall", "AggregateFunctionCall"} ->
            Flatten([i \in 1..Len(expr.args) |-> SubqueryExprs(expr.args[i])])
      [] expr.kind \in {"GetStructField", "GetProtoField"} -> SubqueryExprs(expr.expr)
      [] OTHER -> << >>

ExprsOf(list) == [i \in 1..Len(list) |-> list[i].expr]

\* The scans and the expressions that a scan holds, in the order in which the
\* deep copy visits them.
ChildScans(scan) ==
    CASE scan.kind \in {"TableScan", "TVFScan", "WithRefScan", "null"} -> << >>
      [] scan.kind = "JoinScan" -> <<scan.left, scan.right>>
      [] scan.kind = "SetOperationScan" ->
            [i \in 1..Len(scan.input_item_list) |-> scan.input_item_list[i].scan]
      [] scan.kind = "WithScan" ->
            [i \in 1..Len(scan.with_entry_list) |-> scan.with_entry_list[i].with_subquery]
            \o <<scan.query>>
      [] OTHER -> <<scan.input>>
ChildExprs(scan) ==
    CASE scan.kind = "FilterScan" -> <<scan.filter_expr>>
      [] scan.kind = "JoinScan" -> <<scan.join_expr>>
      [] scan.kind = "ProjectScan" -> ExprsOf(scan.expr_list)
      [] scan.kind \in {"AggregateScan", "PrivateAggregateScan"} ->
            ExprsOf(scan.group_by_list) \o ExprsOf(scan.aggregate_list)
      [] OTHER -> << >>

\* ExpressionSubqueryRewriterVisitor over the scan of a subquery expression:
\* the status of the copy.
RECURSIVE ExpressionSubqueryVisit(_)
ExpressionSubqueryVisit(scan) ==
    CASE scan.kind = "TableScan" /\ SupportsAnonymization(scan.table) ->
            UserError("Reading the table " \o scan.table
                \o " containing user data in expression subqueries is not allowed")
      [] scan.kind = "TVFScan" /\ SignatureSupportsAnonymization(scan.signature) ->
            UserError("Reading the TVF " \o scan.tvf
                \o " containing user data in expression subqueries is not allowed")
      [] scan.kind = "PrivateAggregateScan" /\ scan.family = "ANONYMIZATION" ->
            UserError("Nested anonymization query is not implemented yet")
      [] OTHER ->
            FirstFailure(
                [i \in 1..Len(ChildScans(scan)) |->
                    ExpressionSubqueryVisit(ChildScans(scan)[i])]
                \o Flatten([i \in 1..Len(ChildExprs(scan)) |->
                       [j \in 1..Len(SubqueryExprs(ChildExprs(scan)[i])) |->
                           ExpressionSubqueryVisit(
                               SubqueryExprs(ChildExprs(scan)[i])[j].subquery)]]))

\* PerUserRewriterVisitor::VisitResolvedSubqueryExpr: the status; the copy is
\* the expression itself.
VisitResolvedSubqueryExpr(expr) == ExpressionSubqueryVisit(expr.subquery)

\* The copy of the expressions of a scan by the per-user visitor: the status
\* of the first subquery expression that is not accepted.
PerUserVisitExprs(exprs) ==
    FirstFailure(Flatten([i \in 1..Len(exprs) |->
        [j \in 1..Len(SubqueryExprs(exprs[i])) |->
            VisitResolvedSubqueryExpr(SubqueryExprs(exprs[i])[j])]]))

\* PROJECT_UID(ResolvedFilterScan): the $uid column is implicitly projected.
VisitResolvedFilterScan(scan, st) ==
    LET in == PerUserVisit(scan.input, st)
    IN IF ~IsOk(in.st.status) THEN in
       ELSE IF ~IsOk(PerUserVisitExprs(<<scan.filter_expr>>))
       THEN Failed(in.st, PerUserVisitExprs(<<scan.filter_expr>>))
       ELSE LET copy == [scan EXCEPT !.input = in.scan]
            IN IF ~IsInitialized(in.uid.column) THEN Visited(copy, in.uid, in.st)
               ELSE Visited(ProjectIfMissing(in.uid, copy), in.uid, in.st)

\* The loop of SubstituteUidComputedColumn from entry i on: an entry that
\* matches is replaced by a reference to the uid column, and the uid becomes
\* the column of that entry, no longer a path of a value table.
RECURSIVE SubstituteFrom(_, _, _)
SubstituteFrom(uid, expr_list, i) ==
    IF i > Len(expr_list) THEN [uid |-> uid, expr_list |-> expr_list]
    ELSE IF MatchesPathExpression(uid, expr_list[i].expr)
    THEN SubstituteFrom(
             [uid EXCEPT !.column = expr_list[i].column, !.value_table_uid = NullExpr],
             [expr_list EXCEPT ![i] = ComputedColumn(expr_list[i].column,
                                                     MakeColRef(uid.column))],
             i + 1)
    ELSE SubstituteFrom(uid, expr_list, i + 1)

\* UidColumnState::SubstituteUidComputedColumn: the list and the uid state
\* after it.
SubstituteUidComputedColumn(uid, expr_list) ==
    IF uid.value_table_uid = NullExpr THEN [uid |-> uid, expr_list |-> expr_list]
    ELSE SubstituteFrom(uid, expr_list, 1)

\* Any list of columns passes.
ProjectSelectsUidAlways(cols, c) == TRUE

\* The loop over the column list of the copy: the uid column is in it, by id.
ProjectSelectsUid(cols, c) == \E i \in 1..Len(cols) : cols[i].id = c.id

\* PerUserRewriterVisitor::VisitResolvedProjectScan
VisitResolvedProjectScan(scan, st) ==
    LET in == PerUserVisit(scan.input, st)
    IN IF ~IsOk(PerUserVisitExprs(ExprsOf(scan.expr_list)))
       THEN Failed(st, PerUserVisitExprs(ExprsOf(scan.expr_list)))
       ELSE IF ~IsOk(in.st.status) THEN in
       ELSE LET copy == [scan EXCEPT !.input = in.scan]
            IN IF ~IsInitialized(in.uid.column) THEN Visited(copy, in.uid, in.st)
               ELSE LET sub == SubstituteUidComputedColumn(in.uid, copy.expr_list)
                        copy2 == [copy EXCEPT !.expr_list = sub.expr_list]
                    IN IF ProjectSelectsUid(copy2.cols, sub.uid.column)
                       THEN Visited(copy2, [sub.uid EXCEPT !.alias = ""], in.st)
                       ELSE Failed(in.st, UserError(
                              "Subqueries must explicitly SELECT the userid column"))

\* The loop of VisitResolvedAggregateScan over the group by list, and what
\* follows it: the uid becomes the column of the first entry that is a
\* reference to it, without its alias if the scan has that column in its
\* column list; with no such entry the uid stays what it was.
GroupByUidColumn(uid, group_by_list, cols) ==
    LET i == FirstIndex(group_by_list,
                        LAMBDA e : e.expr.kind = "ColumnRef"
                                   /\ e.expr.column.id = uid.column.id)
    IN IF i > Len(group_by_list) THEN uid
       ELSE IF ColumnListContains(cols, group_by_list[i].column)
       THEN [uid EXCEPT !.column = group_by_list[i].column, !.alias = ""]
       ELSE [uid EXCEPT !.column = group_by_list[i].column]

\* PerUserRewriterVisitor::VisitResolvedAggregateScan
VisitResolvedAggregateScan(scan, st) ==
    LET in == PerUserVisit(scan.input, st)
    IN IF ~IsOk(in.st.status) THEN in
       ELSE IF ~IsOk(PerUserVisitExprs(ChildExprs(scan)))
       THEN Failed(in.st, PerUserVisitExprs(ChildExprs(scan)))
       ELSE LET copy == [scan EXCEPT !.input = in.scan]
            IN IF ~IsInitialized(in.uid.column) THEN Visited(copy, in.uid, in.st)
               ELSE LET sub == SubstituteUidComputedColumn(in.uid, copy.group_by_list)
                    IN Visited([copy EXCEPT !.group_by_list = sub.expr_list],
                               GroupByUidColumn(sub.uid, sub.expr_list, copy.cols),
                               in.st)

FunctionReferencesUidEither(call, left_uid, right_uid) ==
    \/ \E i \in 1..Len(call.args) : MatchesPathExpression(left_uid, call.args[i])
    \/ \E i \in 1..Len(call.args) : MatchesPathExpression(right_uid, call.args[i])

\* FunctionReferencesUid: some argument refers to left_uid and some to right_uid.
FunctionReferencesUid(call, left_uid, right_uid) ==
    /\ \E i \in 1..Len(call.args) : MatchesPathExpression(left_uid, call.args[i])
    /\ \E i \in 1..Len(call.args) : MatchesPathExpression(right_uid, call.args[i])

\* JoinExprIncludesUid
RECURSIVE JoinExprIncludesUid(_, _, _)
JoinExprIncludesUid(join_expr, left_uid, right_uid) ==
    IF join_expr.kind # "FunctionCall" THEN FALSE
    ELSE IF ~join_expr.builtin THEN FALSE
    ELSE CASE join_expr.sig = "FN_AND" ->
                \E i \in 1..Len(join_expr.args) :
                    JoinExprIncludesUid(join_expr.args[i], left_uid, right_uid)
           [] join_expr.sig = "FN_EQUAL" ->
                FunctionReferencesUid(join_expr, left_uid, right_uid)
           [] OTHER -> FALSE

\* VisitResolvedJoinScan, two private inputs: the uid types and the join
\* expression are validated.
JoinValidateUids(copy, left_uid, right_uid) ==
    IF left_uid.column.type # right_uid.column.type
    THEN UserError("Joining two tables containing private data requires matching user id column types")
    ELSE IF ~SupportsEquality(left_uid.column.type)
    THEN UserError("Joining two tables containing private data requires the user id column types to support equality comparison")
    ELSE IF copy.join_expr = NullExpr
    THEN UserError("Joins between tables containing private data must explicitly join on the user id column in each table")
    ELSE IF ~JoinExprIncludesUid(copy.join_expr, left_uid, right_uid)
    THEN UserError("Joins between tables containing private data must also explicitly join on the user id column in each table")
    ELSE Ok

\* VisitResolvedJoinScan, case INNER: the $uid of the left input when it has
\* one, otherwise that of the right input.
JoinInnerUid(left_uid, right_uid) ==
    IF IsInitialized(left_uid.column) THEN left_uid ELSE right_uid

JoinLeftUnchecked(copy, left_uid, right_uid, st) ==
    LET uid == IF IsInitialized(left_uid.column) THEN left_uid ELSE right_uid
    IN Visited(ProjectIfMissing(uid, copy), uid, st)

\* VisitResolvedJoinScan, case LEFT
JoinLeft(copy, left_uid, right_uid, st) ==
    IF ~IsInitialized(left_uid.column)
    THEN Failed(st, UserError("The left table in a LEFT OUTER join must contain user data"))
    ELSE Visited(ProjectIfMissing(left_uid, copy), left_uid, st)

\* VisitResolvedJoinScan, case RIGHT
JoinRight(copy, left_uid, right_uid, st) ==
    IF ~IsInitialized(right_uid.column)
    THEN Failed(st, UserError("The right table in a RIGHT OUTER join must contain user data"))
    ELSE Visited(ProjectIfMissing(right_uid, copy), right_uid, st)

JoinFullWrappedColumnListAfter(copy, left_uid, right_uid) ==
    Append(Append(copy.cols, left_uid.column), right_uid.column)

\* VisitResolvedJoinScan, case FULL: the column list of the wrapping
\* projection is taken before the two uids are added to the join.
JoinFullWrappedColumnList(copy, left_uid, right_uid) == copy.cols

\* VisitResolvedJoinScan, case FULL
JoinFull(copy, left_uid, right_uid, st) ==
    IF ~IsInitialized(left_uid.column) \/ ~IsInitialized(right_uid.column)
    THEN Failed(st, UserError("Both tables in a FULL OUTER join must contain user data"))
    ELSE LET wrapped_column_list == JoinFullWrappedColumnList(copy, left_uid, right_uid)
             join == add_column_list(add_column_list(copy, left_uid.column),
                                     right_uid.column)
             coalesced_uid_function ==
                 ResolveFunctionCall("FunctionCall", "coalesce",
                     <<MakeColRef(left_uid.column), MakeColRef(right_uid.column)>>,
                     << >>, left_uid.column.type)
             uid_column == MakeCol(st, "$uid", coalesced_uid_function.type)
             coalesced_uid_column == ComputedColumn(uid_column, coalesced_uid_function)
             uid == SetColumn(NoUid, uid_column)
         IN Visited(ProjectScan(Append(wrapped_column_list, uid.column),
                                <<coalesced_uid_column>>, join),
                    uid, MakeColState(st))

\* PerUserRewriterVisitor::VisitResolvedJoinScan
VisitResolvedJoinScan(scan, st) ==
    LET l == PerUserVisit(scan.left, st)
    IN IF ~IsOk(l.st.status) THEN l
       ELSE
       LET r == PerUserVisit(scan.right, l.st)
       IN IF ~IsOk(r.st.status) THEN r
          ELSE IF ~IsOk(PerUserVisitExprs(<<scan.join_expr>>))
          THEN Failed(r.st, PerUserVisitExprs(<<scan.join_expr>>))
          ELSE
          LET copy == [scan EXCEPT !.left = l.scan, !.right = r.scan]
              both == IsInitialized(l.uid.column) /\ IsInitialized(r.uid.column)
              valid == IF both THEN JoinValidateUids(copy, l.uid, r.uid) ELSE Ok
          IN IF ~IsInitialized(l.uid.column) /\ ~IsInitialized(r.uid.column)
             THEN Visited(copy, NoUid, r.st)
             ELSE IF ~IsOk(valid) THEN Failed(r.st, valid)
             ELSE CASE scan.join_type = "INNER" ->
                         LET uid == JoinInnerUid(l.uid, r.uid)
                         IN Visited(ProjectIfMissing(uid, copy), uid, r.st)
                    [] scan.join_type = "LEFT" -> JoinLeft(copy, l.uid, r.uid, r.st)
                    [] scan.join_type = "RIGHT" -> JoinRight(copy, l.uid, r.uid, r.st)
                    [] scan.join_type = "FULL" -> JoinFull(copy, l.uid, r.uid, r.st)


\* SetOperationTypeToString
SetOperationTypeToString(type) ==
    CASE type = "UNION_ALL" -> "UNION ALL"
      [] type = "UNION_DISTINCT" -> "UNION DISTINCT"
      [] type = "INTERSECT_ALL" -> "INTERSECT ALL"
      [] type = "INTERSECT_DISTINCT" -> "INTERSECT DISTINCT"
      [] type = "EXCEPT_ALL" -> "EXCEPT ALL"
      [] type = "EXCEPT_DISTINCT" -> "EXCEPT DISTINCT"

\* IsInternalAlias: the names that begin with '$'.
InternalAliases == {"$uid", "$orderbycol1", "$k_threshold_col",
                    "$group_selection_threshold_col"}
IsInternalAlias(name) == name \in InternalAliases

\* UidColumnState::ToString, for a uid that is not derived from a value table.
UidToString(uid) ==
    IF ~IsInternalAlias(uid.column.name)
    THEN (IF uid.alias = "" THEN "" ELSE uid.alias \o ".") \o uid.column.name
    ELSE ""

\* std::find over a column list: the 1-based position of c, Len+1 if absent.
ColumnPosition(cols, c) == FirstIndex(cols, LAMBDA x : ColEq(x, c))

\* ResolvedASTDeepCopyVisitor::VisitResolvedSetOperationItem run by a new
\* PerUserRewriterVisitor: the scan is rewritten, the output column list copied.
VisitResolvedSetOperationItem(item, st) ==
    LET in == PerUserVisit(item.scan, st)
    IN IF ~IsOk(in.st.status) THEN in
       ELSE Visited([item EXCEPT !.scan = in.scan], in.uid, in.st)

\* VisitResolvedSetOperationScan, lines 2004-2028: the first k input items are
\* rewritten, each by a visitor of its own.
RECURSIVE RewriteInputItems(_, _, _)
RewriteInputItems(scan, k, st) ==
    IF k = 0 THEN [rewritten_input_items |-> << >>, uids |-> << >>, st |-> st]
    ELSE
      LET before == RewriteInputItems(scan, k - 1, st)
          item == VisitResolvedSetOperationItem(scan.input_item_list[k], before.st)
      IN IF ~IsOk(before.st.status) THEN before
         ELSE IF ~IsOk(item.st.status) THEN [before EXCEPT !.st = item.st]
         ELSE IF IsInitialized(item.uid.column)
                 /\ ~ColumnListContains(item.scan.output_column_list, item.uid.column)
         THEN [before EXCEPT !.st = Fail(item.st, InternalError(
                  "Column " \o UidToString(item.uid)
                  \o " not included in set operation output"))]
         ELSE [rewritten_input_items |-> Append(before.rewritten_input_items, item.scan),
               uids |-> Append(before.uids, item.uid),
               st |-> item.st]

IsOrIsNot(b) == IF b THEN "is" ELSE "is not"

\* The last item whose having a $uid column differs from the reference item's.
FirstUidPresenceMismatchLast(uids) ==
    IF \A i \in 1..Len(uids) :
           IsInitialized(uids[1].column) = IsInitialized(uids[i].column)
    THEN Len(uids) + 1
    ELSE CHOOSE i \in 1..Len(uids) :
           /\ IsInitialized(uids[1].column) # IsInitialized(uids[i].column)
           /\ \A j \in (i + 1)..Len(uids) :
                  IsInitialized(uids[1].column) = IsInitialized(uids[j].column)

\* Lines 2039-2056: the first item whose having a $uid column differs from
\* the reference item's, Len+1 if all agree.
FirstUidPresenceMismatch(uids) ==
    FirstIndex(uids, LAMBDA u :
        IsInitialized(uids[1].column) # IsInitialized(u.column))

NotAllQueriesError(copy, uids, i, select_with_mode_name) ==
    UserError("Not all queries in " \o SetOperationTypeToString(copy.op_type)
        \o " are " \o AsciiStrToLower(select_with_mode_name)
        \o "-enabled table expressions; query 1 "
        \o IsOrIsNot(IsInitialized(uids[1].column)) \o " "
        \o (IF uses_a_article(select_with_mode_name) THEN "a" ELSE "an") \o " "
        \o AsciiStrToLower(select_with_mode_name)
        \o "-enabled table expression, but query " \o ToString(i) \o " "
        \o IsOrIsNot(IsInitialized(uids[i].column)))

\* Lines 2060-2084: the first item whose $uid column sits at another offset of
\* its output column list than the reference item's, Len+1 if none does.
FirstUidPositionMismatch(copy, uids) ==
    FirstIndex([i \in 1..Len(uids) |-> i], LAMBDA i :
        ColumnPosition(copy.input_item_list[i].output_column_list, uids[i].column)
          # ColumnPosition(copy.input_item_list[1].output_column_list, uids[1].column))

MismatchedUidError(copy, uids, i) ==
    UserError("Queries in " \o SetOperationTypeToString(copy.op_type)
        \o " have mismatched userid columns; query 1 has userid column '"
        \o UidToString(uids[1]) \o "' in position "
        \o ToString(ColumnPosition(copy.input_item_list[1].output_column_list,
                                    uids[1].column))
        \o ", query " \o ToString(i) \o " has userid column '"
        \o UidToString(uids[i]) \o "' in position "
        \o ToString(ColumnPosition(copy.input_item_list[i].output_column_list,
                                    uids[i].column)))

\* The $uid column of the reference item.
SetOperationUidOfItem(copy, uids) == SetColumn(NoUid, uids[1].column)

\* Lines 2086-2087: the $uid of the set operation is the column of its own
\* column list at the offset the items agree on.
SetOperationUid(copy, uids) ==
    SetColumn(NoUid,
        copy.cols[ColumnPosition(copy.input_item_list[1].output_column_list,
                                 uids[1].column)])

\* Lines 2030-2090, on the rewritten input items.
SetOperationValidate(copy, uids, st) ==
    IF FirstUidPresenceMismatch(uids) <= Len(uids)
    THEN Failed(st, NotAllQueriesError(copy, uids, FirstUidPresenceMismatch(uids),
                                       st.select_with_mode_name))
    ELSE IF ~IsInitialized(uids[1].column) THEN Visited(copy, NoUid, st)
    ELSE IF FirstUidPositionMismatch(copy, uids) <= Len(uids)
    THEN Failed(st, MismatchedUidError(copy, uids, FirstUidPositionMismatch(copy, uids)))
    ELSE Visited(copy, SetOperationUid(copy, uids), st)

\* PerUserRewriterVisitor::VisitResolvedSetOperationScan
VisitResolvedSetOperationScan(scan, st) ==
    LET items == RewriteInputItems(scan, Len(scan.input_item_list), st)
    IN IF ~IsOk(items.st.status) THEN Failed(items.st, items.st.status)
       ELSE SetOperationValidate(
                SetOperationScan(scan.cols, scan.op_type, items.rewritten_input_items),
                items.uids, items.st)

\* Lines 1643-1648 and 1692-1693: the first recorded entry with the name; one
\* more than the number of entries if there is none.
FindWithEntry(with_entries, name) ==
    FirstIndex(with_entries, LAMBDA e : e.original_entry.with_query_name = name)

\* Lines 1690-1709: the rewritten entry and its $uid are recorded with the
\* entry of that name, or as a new entry if the name is not recorded.
RecordWithEntry(original, copy, uid, st) ==
    IF FindWithEntry(st.with_entries, copy.with_query_name) <= Len(st.with_entries)
    THEN IF st.with_entries[FindWithEntry(st.with_entries, copy.with_query_name)]
               .rewritten_entry # NullEntry
         THEN Fail(st, InternalError("WITH entry has already been rewritten: "
                                     \o copy.with_query_name))
         ELSE [st EXCEPT
                 !.with_entries[FindWithEntry(st.with_entries, copy.with_query_name)] =
                     [@ EXCEPT !.rewritten_entry = copy, !.rewritten_uid = uid]]
    ELSE [st EXCEPT !.with_entries =
             Append(@, [original_entry |-> original, rewritten_entry |-> copy,
                        rewritten_entry_owned |-> NullEntry, rewritten_uid |-> uid])]

WithEntryVisited(entry, st) == [entry |-> entry, st |-> st]

\* Lines 1686-1711, after the copy of the subquery: the copy of the entry is
\* returned and the current $uid is cleared.
WithEntryRecorded(original, sub) ==
    IF ~IsOk(sub.st.status) THEN WithEntryVisited(NullEntry, sub.st)
    ELSE WithEntryVisited(
             WithEntry(original.with_query_name, sub.scan),
             RecordWithEntry(original, WithEntry(original.with_query_name, sub.scan),
                             sub.uid, sub.st))

\* PerUserRewriterVisitor::VisitResolvedWithEntry
VisitResolvedWithEntry(entry, st) ==
    WithEntryRecorded(entry, PerUserVisit(entry.with_subquery, st))

\* Lines 1655-1659: the owner of the rewritten entry is the rewrite state.
WithEntryOwned(i, rewritten) ==
    IF ~IsOk(rewritten.st.status) THEN rewritten.st
    ELSE IF rewritten.st.with_entries[i].rewritten_entry # rewritten.entry
    THEN Fail(rewritten.st,
              InternalError("Invalid rewrite state for "
                            \o rewritten.entry.with_query_name))
    ELSE [rewritten.st EXCEPT !.with_entries[i].rewritten_entry_owned = rewritten.entry]

\* An entry is rewritten at every reference to it.
WithEntryRewrittenAlways(i, st) ==
    WithEntryOwned(i, VisitResolvedWithEntry(st.with_entries[i].original_entry, st))

\* Lines 1652-1661: an entry that was not rewritten yet is rewritten as a
\* nested subquery; a rewritten entry is left alone.
WithEntryRewritten(i, st) ==
    IF st.with_entries[i].rewritten_entry = NullEntry
    THEN WithEntryOwned(i, VisitResolvedWithEntry(st.with_entries[i].original_entry, st))
    ELSE st

\* Lines 1671-1681: the first position, within both column lists, at which the
\* subquery of the rewritten entry has the column id of the $uid; 0 if none.
WithRefUidPosition(entry, scan) ==
    IF \E i \in 1..Len(scan.cols) :
           /\ i <= Len(entry.rewritten_entry.with_subquery.cols)
           /\ entry.rewritten_entry.with_subquery.cols[i].id
                = entry.rewritten_uid.column.id
    THEN CHOOSE i \in 1..Len(scan.cols) :
           /\ i <= Len(entry.rewritten_entry.with_subquery.cols)
           /\ entry.rewritten_entry.with_subquery.cols[i].id
                = entry.rewritten_uid.column.id
           /\ \A j \in 1..(i - 1) :
                  entry.rewritten_entry.with_subquery.cols[j].id
                    # entry.rewritten_uid.column.id
    ELSE 0

\* Lines 1663-1684: the reference is copied; its $uid is its column at the
\* position the $uid of the entry has in the subquery of the entry.
WithRefUid(scan, entry, st) ==
    IF ~IsOk(st.status) THEN Failed(st, st.status)
    ELSE IF IsInitialized(entry.rewritten_uid.column)
            /\ WithRefUidPosition(entry, scan) > 0
    THEN Visited(scan,
                 SetColumnAlias(NoUid, scan.cols[WithRefUidPosition(entry, scan)], ""),
                 st)
    ELSE Visited(scan, NoUid, st)

WithRefEntry(scan, i, st) ==
    WithRefUid(scan, IF IsOk(st.status) THEN st.with_entries[i] ELSE NullEntry, st)

\* PerUserRewriterVisitor::VisitResolvedWithRefScan
VisitResolvedWithRefScan(scan, st) ==
    IF FindWithEntry(st.with_entries, scan.with_query_name) > Len(st.with_entries)
    THEN Failed(st, InternalError("Failed to find WITH entry " \o scan.with_query_name))
    ELSE WithRefEntry(scan, FindWithEntry(st.with_entries, scan.with_query_name),
                      WithEntryRewritten(
                          FindWithEntry(st.with_entries, scan.with_query_name), st))

PerUserWithEntryAppend(before, visited) ==
    [entries |-> Append(before.entries, visited.entry), st |-> visited.st]

PerUserWithEntryNext(scan, k, before) ==
    IF ~IsOk(before.st.status) THEN before
    ELSE PerUserWithEntryAppend(
             before, VisitResolvedWithEntry(scan.with_entry_list[k], before.st))

\* ResolvedASTDeepCopyVisitor::CopyVisitResolvedWithScan, for the first k
\* entries: each entry is visited in turn.
RECURSIVE PerUserWithEntries(_, _, _)
PerUserWithEntries(scan, k, st) ==
    IF k = 0 THEN [entries |-> << >>, st |-> st]
    ELSE PerUserWithEntryNext(scan, k, PerUserWithEntries(scan, k - 1, st))

PerUserWithScanCopied(scan, entries, query) ==
    IF ~IsOk(query.st.status) THEN query
    ELSE Visited(WithScan(scan.cols, entries.entries, query.scan, scan.recursive,
                          scan.is_ordered),
                 query.uid, query.st)

PerUserWithQuery(scan, entries) ==
    IF ~IsOk(entries.st.status) THEN Failed(entries.st, entries.st.status)
    ELSE PerUserWithScanCopied(scan, entries, PerUserVisit(scan.query, entries.st))

\* ResolvedASTDeepCopyVisitor::CopyVisitResolvedWithScan, run by a
\* PerUserRewriterVisitor: the entries, then the query, whose $uid is the
\* current $uid.
PerUserVisitResolvedWithScan(scan, st) ==
    PerUserWithQuery(scan, PerUserWithEntries(scan, Len(scan.with_entry_list), st))

\* The dispatch of the visitor on the kind of the scan.
PerUserVisit(scan, st) ==
    CASE scan.kind = "TableScan" -> VisitResolvedTableScan(scan, st)
      [] scan.kind = "TVFScan" -> VisitResolvedTVFScan(scan, st)
      [] scan.kind = "FilterScan" -> VisitResolvedFilterScan(scan, st)
      [] scan.kind = "ProjectScan" -> VisitResolvedProjectScan(scan, st)
      [] scan.kind = "AggregateScan" -> VisitResolvedAggregateScan(scan, st)
      [] scan.kind = "JoinScan" -> VisitResolvedJoinScan(scan, st)
      [] scan.kind = "SetOperationScan" -> VisitResolvedSetOperationScan(scan, st)
      [] scan.kind = "WithRefScan" -> VisitResolvedWithRefScan(scan, st)
      [] scan.kind = "WithScan" -> PerUserVisitResolvedWithScan(scan, st)

---------------------------------------------------------------------------
(* Inputs: join scans beneath a private aggregate *)

\* Largest column id of an input tree; the allocator starts above it.
MaxInputColumnId == 8
\* Nesting depth of the AND-trees drawn as join expressions.
MaxAndDepth == 2

Equal(a, b) ==
    FunctionCall(IF a.type = b.type THEN "FN_EQUAL" ELSE "FN_EQUAL_INT64_UINT64",
                 <<ColumnRef(a), ColumnRef(b)>>)
And(p, q) == FunctionCall("FN_AND", <<p, q>>)
Or(p, q) == FunctionCall("FN_OR", <<p, q>>)
Not(p) == FunctionCall("FN_NOT", <<p>>)

\* e under k levels of AND, alternately as the right and the left argument.
RECURSIVE NestInAnd(_, _, _)
NestInAnd(e, other, k) ==
    IF k = 0 THEN e
    ELSE IF k % 2 = 1 THEN And(other, NestInAnd(e, other, k - 1))
    ELSE And(NestInAnd(e, other, k - 1), other)

LeftInputs ==
    {TableScan("T1", <<Col(1, "uid", "INT64"), Col(2, "x", "INT64")>>, <<1, 2>>, "a"),
     TableScan("T1", <<Col(2, "x", "INT64")>>, <<2>>, ""),
     TableScan("T3", <<Col(1, "z", "INT64"), Col(2, "k", "INT64")>>, <<1, 2>>, ""),
     TableScan("T4", <<Col(1, "uid", "UINT64"), Col(2, "w", "INT64")>>, <<1, 2>>, ""),
     FilterScan(<<Col(2, "x", "INT64")>>,
                TableScan("T1", <<Col(1, "uid", "INT64"), Col(2, "x", "INT64")>>,
                          <<1, 2>>, ""),
                Literal("BOOL", TRUE))}

RightInputs ==
    {TableScan("T2", <<Col(3, "y", "INT64"), Col(4, "uid", "INT64")>>, <<1, 2>>, "b"),
     TableScan("T2", <<Col(3, "y", "INT64")>>, <<1>>, ""),
     TableScan("T3", <<Col(3, "z", "INT64"), Col(4, "k", "INT64")>>, <<1, 2>>, ""),
     TableScan("T1", <<Col(4, "uid", "INT64"), Col(3, "x", "INT64")>>, <<1, 2>>, "")}

\* The columns a join expression may refer to: those its inputs produce.
InputColumns(l, r) == Range(l.cols) \cup Range(r.cols) \cup
    (IF l.kind = "FilterScan" THEN Range(l.input.cols) ELSE {})

JoinAtoms(l, r) == {Equal(a, b) : a \in InputColumns(l, r), b \in InputColumns(l, r)}

\* Atoms the compound expressions are built from: over the first two columns of
\* the left input and the columns of the right input.
SmallAtoms(l, r) ==
    {Equal(a, b) : a \in {Col(1, "uid", "INT64"), Col(2, "x", "INT64")} \cap InputColumns(l, r),
                   b \in {Col(4, "uid", "INT64"), Col(3, "y", "INT64")} \cap InputColumns(l, r)}

CoreJoinExprs(l, r) ==
    JoinAtoms(l, r)
    \cup {Or(p, q) : p \in SmallAtoms(l, r), q \in SmallAtoms(l, r)}
    \cup {Not(p) : p \in SmallAtoms(l, r)}
    \cup {UdfCall("FN_EQUAL", p.args) : p \in SmallAtoms(l, r)}

JoinExprs(l, r) ==
    {NullExpr} \cup
    {NestInAnd(e, Equal(l.cols[1], r.cols[1]), k) :
        e \in CoreJoinExprs(l, r), k \in 0..MaxAndDepth}

JoinColumnLists(l, r) ==
    {l.cols \o r.cols,
     SelectSeq(l.cols \o r.cols, LAMBDA c : c.name # "uid")}

JoinTypes == {"INNER", "LEFT", "RIGHT", "FULL"}

JoinsOf(l, r) ==
    {JoinScan(cols, t, l, r, e) :
        t \in JoinTypes, cols \in JoinColumnLists(l, r), e \in JoinExprs(l, r)}

JoinInputs == UNION {JoinsOf(l, r) : l \in LeftInputs, r \in RightInputs}

---------------------------------------------------------------------------
(* Inputs: set operations beneath a private aggregate *)

\* Most input items of a set operation.
MaxSetOperationItems == 3

\* The queries that may stand as item j; their columns have the ids 2j-1, 2j.
ItemTable(j, alias) ==
    TableScan("T1", <<Col(2 * j - 1, "uid", "INT64"), Col(2 * j, "x", "INT64")>>,
              <<1, 2>>, alias)
ItemProject(cols, input) == SetOperationItem(ProjectScan(cols, << >>, input), cols)
ItemsAt(j) ==
    {ItemProject(<<Col(2 * j - 1, "uid", "INT64"), Col(2 * j, "x", "INT64")>>,
                 ItemTable(j, "")),
     ItemProject(<<Col(2 * j, "x", "INT64"), Col(2 * j - 1, "uid", "INT64")>>,
                 ItemTable(j, "")),
     ItemProject(<<Col(2 * j, "x", "INT64"), Col(2 * j, "x", "INT64")>>,
                 ItemTable(j, "")),
     ItemProject(<<Col(2 * j - 1, "z", "INT64"), Col(2 * j, "k", "INT64")>>,
                 TableScan("T3", <<Col(2 * j - 1, "z", "INT64"),
                                   Col(2 * j, "k", "INT64")>>, <<1, 2>>, "")),
     SetOperationItem(ItemTable(j, "t"),
                      <<Col(2 * j - 1, "uid", "INT64"), Col(2 * j, "x", "INT64")>>)}

ItemLists ==
    {items \in SeqOf(UNION {ItemsAt(j) : j \in 1..MaxSetOperationItems},
                     MaxSetOperationItems) :
        /\ Len(items) >= 2
        /\ \A j \in 1..Len(items) : items[j] \in ItemsAt(j)}

SetOperationTypes == {"UNION_ALL", "INTERSECT_DISTINCT", "EXCEPT_ALL"}

SetOperationColumns ==
    <<Col(2 * MaxSetOperationItems + 1, "c1", "INT64"),
      Col(2 * MaxSetOperationItems + 2, "c2", "INT64")>>

SetOperationInputs ==
    {SetOperationScan(SetOperationColumns, op, items) :
        op \in SetOperationTypes, items \in ItemLists}

---------------------------------------------------------------------------
(* Inputs: subquery expressions beneath a private aggregate *)

\* Table-valued functions: one with a privacy unit, one without.
PrivateTVF ==
    TVFScan(<<Col(5, "uid", "INT64")>>, "F1",
            TVFSignature(<<[name |-> "uid", type |-> "INT64"]>>, FALSE, <<"uid">>),
            <<1>>, "")
PublicTVF ==
    TVFScan(<<Col(5, "k", "INT64")>>, "F0",
            TVFSignature(<<[name |-> "k", type |-> "INT64"]>>, FALSE, << >>),
            <<1>>, "")

\* A private aggregate nested in a subquery: it counts the rows of its input.
NestedCount == Col(7, "n", "INT64")
NestedPrivateAggregate(family, input, options) ==
    PrivateAggregateScan(family, <<NestedCount>>, input, << >>,
        <<ComputedColumn(NestedCount,
              [kind |-> "AggregateFunctionCall", sig |-> "FN_ANON_COUNT_STAR",
               function |-> "$anon_count_star", args |-> << >>, type |-> "INT64"])>>,
        NullExpr, options, FALSE)
PrivacyUnitK == <<Option("privacy_unit_column", ColumnRef(Col(6, "k", "INT64")))>>
PublicScan == TableScan("T3", <<Col(5, "z", "INT64"), Col(6, "k", "INT64")>>, <<1, 2>>, "")
PrivateScan == TableScan("T1", <<Col(5, "uid", "INT64"), Col(6, "x", "INT64")>>, <<1, 2>>, "")

\* The scans of the subquery expressions.
Subqueries ==
    {PublicScan, PrivateScan, PublicTVF, PrivateTVF,
     FilterScan(<<Col(6, "x", "INT64")>>, PrivateScan, Lit(1)),
     FilterScan(<<Col(6, "k", "INT64")>>, PublicScan, Lit(1)),
     FilterScan(<<Col(6, "k", "INT64")>>, PublicScan,
                SubqueryExpr("EXISTS", PrivateTVF, "BOOL")),
     NestedPrivateAggregate("ANONYMIZATION", PublicScan, << >>),
     NestedPrivateAggregate("DIFFERENTIAL_PRIVACY", PublicScan, PrivacyUnitK),
     NestedPrivateAggregate("DIFFERENTIAL_PRIVACY", PrivateScan, << >>)}

SubqueryTypes == {"SCALAR", "IN", "EXISTS"}
SubqueryExprInputs ==
    UNION {{SubqueryExpr(t, q, "BOOL"),
            FunctionCall("FN_AND", <<Lit(1), SubqueryExpr(t, q, "BOOL")>>)} :
           t \in SubqueryTypes, q \in Subqueries}

\* The scans that hold the expression: a filter and a projection that
\* computes it, over a table with or without a privacy unit.
SubqueryHosts(e) ==
    UNION {{FilterScan(t.cols, t, e),
            ProjectScan(t.cols \o <<Col(8, "e", "BOOL")>>,
                        <<ComputedColumn(Col(8, "e", "BOOL"), e)>>, t)} :
           t \in {T1WithUid, T3Scan}}
SubqueryInputs == UNION {SubqueryHosts(e) : e \in SubqueryExprInputs}

---------------------------------------------------------------------------
(* Inputs: projections beneath a private aggregate *)

\* Scans of the value tables: the row value selected or not, the table
\* aliased or not.
ValueCol(table) == Col(1, "value", ValueTables[table].columns[1].type)
ValueTableScans ==
    {TableScan("V1", <<ValueCol("V1")>>, <<1>>, alias) : alias \in {"", "v"}}
    \cup {TableScan("V1", << >>, << >>, ""), TableScan("V2", << >>, << >>, ""),
          TableScan("V2", <<ValueCol("V2")>>, <<1>>, "")}

\* The field of the row value of V1 that is its privacy unit, another field
\* of it, and the nested field that is the privacy unit of V2.
UidOfV1 == GetStructField(ColumnRef(ValueCol("V1")), 2, "INT64")
AOfV1 == GetStructField(ColumnRef(ValueCol("V1")), 1, "INT64")
UidOfV2 ==
    GetStructField(GetStructField(ColumnRef(ValueCol("V2")), 1, "STRUCT_V"), 2, "INT64")

\* Lists of at most MaxComputed computed columns: no column computed twice.
MaxComputed == 3
ComputedLists(entries) ==
    {list \in SeqOf(entries, MaxComputed) :
        \A i, j \in 1..Len(list) : list[i].column = list[j].column => i = j}
ValueComputed(table) ==
    IF table = "V1"
    THEN {ComputedColumn(Col(3, "u", "INT64"), UidOfV1),
          ComputedColumn(Col(4, "u2", "INT64"), UidOfV1),
          ComputedColumn(Col(5, "a", "INT64"), AOfV1)}
    ELSE {ComputedColumn(Col(3, "u", "INT64"), UidOfV2),
          ComputedColumn(Col(5, "b", "INT64"),
                         GetStructField(ColumnRef(ValueCol("V2")), 2, "INT64"))}
PhysicalComputed ==
    {ComputedColumn(Col(3, "u", "INT64"), ColumnRef(UidCol)),
     ComputedColumn(Col(5, "y", "INT64"), ColumnRef(XCol))}

\* The output lists of a projection: the computed columns, all or without
\* one of them, after the columns of the input or alone.
ColumnsOf(list) == [i \in 1..Len(list) |-> list[i].column]
WithoutEntry(list, k) ==
    [i \in 1..(Len(list) - 1) |-> IF i < k THEN list[i] ELSE list[i + 1]]
OutputLists(input, list) ==
    {ColumnsOf(list), input.cols \o ColumnsOf(list)}
    \cup {ColumnsOf(WithoutEntry(list, k)) : k \in 1..Len(list)}
    \cup {input.cols \o ColumnsOf(WithoutEntry(list, k)) : k \in 1..Len(list)}

ProjectionsOver(input, entries) ==
    UNION {{ProjectScan(cols, list, input) : cols \in OutputLists(input, list)} :
           list \in ComputedLists(entries)}

ProjectInputs ==
    UNION {ProjectionsOver(t, IF t.cols = << >> THEN {} ELSE ValueComputed(t.table)) :
           t \in ValueTableScans}
    \cup UNION {ProjectionsOver(t, PhysicalComputed) :
                t \in {T1WithUid, T1WithoutUid, T3Scan,
                       TableScan("T1", <<UidCol, XCol>>, <<1, 2>>, "t"),
                       FilterScan(<<XCol>>, T1WithoutUid, Lit(1))}}

---------------------------------------------------------------------------
(* Inputs: aggregate scans beneath a private aggregate *)

\* The rows of each group are counted.
GroupCount ==
    ComputedColumn(Col(7, "n", "INT64"),
        [kind |-> "AggregateFunctionCall", sig |-> "FN_COUNT_STAR",
         function |-> "$count_star", args |-> << >>, type |-> "INT64"])

\* The group by entries over T1: by its uid, by another column, and by an
\* expression of the uid; over V1: by the field that is its privacy unit and
\* by another field.
NestedGroupByEntries(input) ==
    IF input.table = "V1"
    THEN {ComputedColumn(Col(3, "u", "INT64"), UidOfV1),
          ComputedColumn(Col(5, "a", "INT64"), AOfV1)}
    ELSE {ComputedColumn(Col(3, "u", "INT64"), ColumnRef(input.cols[1])),
          ComputedColumn(Col(4, "u2", "INT64"), ColumnRef(input.cols[1])),
          ComputedColumn(Col(5, "y", "INT64"), ColumnRef(input.cols[2])),
          ComputedColumn(Col(6, "w", "INT64"),
                         FunctionCall("FN_ADD", <<ColumnRef(input.cols[1]), Lit(0)>>))}

\* Lists of at most MaxGroupBy entries: no column computed twice.
MaxGroupBy == 2
NestedGroupByLists(entries) ==
    {list \in SeqOf(entries, MaxGroupBy) :
        \A i, j \in 1..Len(list) : list[i].column = list[j].column => i = j}

\* The aggregate scans: they have the columns of the group by list, all or
\* all but one, and then the count.
AggregateScansOver(input) ==
    UNION {{AggregateScan(cols \o <<GroupCount.column>>, input, list, <<GroupCount>>) :
               cols \in {ColumnsOf(list)}
                        \cup {ColumnsOf(WithoutEntry(list, k)) : k \in 1..Len(list)}} :
           list \in NestedGroupByLists(NestedGroupByEntries(input))}

AggregateScanInputs ==
    UNION {AggregateScansOver(t) :
           t \in {T1WithUid, T3Scan, TableScan("T1", <<UidCol, XCol>>, <<1, 2>>, "t"),
                  TableScan("V1", <<ValueCol("V1")>>, <<1>>, "v")}}

---------------------------------------------------------------------------
(* Inputs: table-valued functions beneath a private aggregate *)

\* Columns of the result schema of a table-valued function.
MaxSchemaColumns == 3
SchemaNames == <<"c1", "c2", "c3", "c4", "c5">>
SchemaTypes == {"INT64", "JSON"}
\* A schema of n columns; the column at position p has the type uid_type.
Schema(n, p, uid_type) ==
    [k \in 1..n |-> [name |-> SchemaNames[k],
                     type |-> IF k = p THEN uid_type ELSE "INT64"]]
\* The privacy unit is the column at position p; p = 0 names a column that
\* the schema does not have.
ColumnSignatures ==
    UNION {{TVFSignature(Schema(n, p, type), FALSE,
                         <<IF p = 0 THEN "nouid" ELSE SchemaNames[p]>>) :
               p \in 0..n, type \in SchemaTypes} :
           n \in 1..MaxSchemaColumns}
    \cup {TVFSignature(Schema(2, 0, "INT64"), FALSE, << >>),
          TVFSignature(Schema(2, 0, "INT64"), FALSE, <<"c1", "f">>)}
ValueSignatures ==
    {TVFSignature(<<[name |-> "value", type |-> type]>>, TRUE, <<"uid">>) :
        type \in {"STRUCT_V", "STRUCT_J"}}

\* The scans of a function that returns columns: the columns at increasing
\* positions of the schema, the column at position k having the id k.
IncreasingLists(n) ==
    {list \in SeqOf(1..n, n) : \A i \in 1..(Len(list) - 1) : list[i] < list[i + 1]}
ColumnTVFScans ==
    UNION {{TVFScan([i \in 1..Len(list) |->
                        Col(list[i], signature.columns[list[i]].name,
                            signature.columns[list[i]].type)],
                    "F", signature, list, alias) :
               list \in IncreasingLists(Len(signature.columns)), alias \in {"", "f"}} :
           signature \in ColumnSignatures}
ValueTVFScans ==
    UNION {{TVFScan(<<Col(1, "value", signature.columns[1].type)>>, "F", signature,
                    <<1>>, ""),
            TVFScan(<< >>, "F", signature, << >>, "f")} :
           signature \in ValueSignatures}
TVFInputs == ColumnTVFScans \cup ValueTVFScans

---------------------------------------------------------------------------
\* The scans beneath the private aggregate that are neither joins nor set
\* operations on their own.
NestedInputs ==
    SubqueryInputs \cup ProjectInputs \cup AggregateScanInputs \cup TVFInputs

\* AnalyzerOptions: default_anon_kappa_value and the language features read
\* by the rewriter.
Config(d, anon_thresholding, dp_thresholding, json_extraction) ==
    [default_anon_kappa_value |-> d,
     FEATURE_ANONYMIZATION_THRESHOLDING |-> anon_thresholding,
     FEATURE_DIFFERENTIAL_PRIVACY_THRESHOLDING |-> dp_thresholding,
     FEATURE_JSON_VALUE_EXTRACTION_FUNCTIONS |-> json_extraction]
NoConfig == Config(Int64(0), FALSE, FALSE, FALSE)
NoFrame == [scan |-> NullScan]
\* Before the visit: the mode the per-user visitor is constructed with.
ModeFrame(select_with_mode_name) ==
    [scan |-> NullScan, select_with_mode_name |-> select_with_mode_name]
PerUserState(select_with_mode_name) ==
    [InitState(MaxInputColumnId, NoSequence) EXCEPT
        !.select_with_mode_name = select_with_mode_name]

---------------------------------------------------------------------------
(* The per-user rewrite of the input scan of a private aggregate *)

InitPerUser ==
    /\ pc = "per_user"
    /\ \/ node \in JoinInputs /\ fr = ModeFrame("ANONYMIZATION")
       \/ node \in SetOperationInputs
          /\ fr \in {ModeFrame(name) : name \in SelectWithModeNames}
       \/ node \in NestedInputs
          /\ fr \in {ModeFrame(name) : name \in SelectWithModeNames}
    /\ config = NoConfig

\* RewritePerUserTransform runs a PerUserRewriterVisitor over the input scan.
PerUserRewrite ==
    /\ pc = "per_user"
    /\ fr' = PerUserVisit(node, PerUserState(fr.select_with_mode_name))
    /\ pc' = "per_user_done"
    /\ UNCHANGED <<node, config>>

NextPerUser == PerUserRewrite

SpecPerUser == InitPerUser /\ [][NextPerUser]_vars

---------------------------------------------------------------------------
(* Properties of the rewrite of a JoinScan *)

JoinDone == pc = "per_user_done" /\ node.kind = "JoinScan"
\* What the visits of the two inputs returned.
LeftVisited == PerUserVisit(node.left, InitState(MaxInputColumnId, NoSequence))
RightVisited == PerUserVisit(node.right, LeftVisited.st)
LeftPrivate == IsInitialized(LeftVisited.uid.column)
RightPrivate == IsInitialized(RightVisited.uid.column)
Succeeded == IsOk(fr.st.status)
UserErrorRaised == fr.st.status.code = "INVALID_ARGUMENT"

\* e is a builtin equality with an argument that is a reference to column a and
\* an argument that is a reference to column b.
IsEqualityOf(e, a, b) ==
    /\ e.kind = "FunctionCall" /\ e.builtin
    /\ e.sig \in {"FN_EQUAL", "FN_EQUAL_INT64_UINT64"}
    /\ \E i \in 1..Len(e.args) : e.args[i] = ColumnRef(a)
    /\ \E i \in 1..Len(e.args) : e.args[i] = ColumnRef(b)

\* e is such an equality, or an AND-tree of any depth that contains one.
RECURSIVE EquatesUnderAnd(_, _, _)
EquatesUnderAnd(e, a, b) ==
    \/ IsEqualityOf(e, a, b)
    \/ /\ e.kind = "FunctionCall" /\ e.builtin /\ e.sig = "FN_AND"
       /\ \E i \in 1..Len(e.args) : EquatesUnderAnd(e.args[i], a, b)

\* The join with 'AND left.uid = right.uid' added at the top level of its
\* predicate (as the whole predicate when there was none).
WithUidEquality(join, a, b) ==
    [join EXCEPT !.join_expr =
        IF @ = NullExpr THEN Equal(a, b) ELSE And(@, Equal(a, b))]

JoinSucceeds(join) ==
    IsOk(PerUserVisit(join, InitState(MaxInputColumnId, NoSequence)).st.status)

\* Both uids are columns of the input, so that the query can refer to them.
UidsSelectable ==
    /\ ColumnListContains(node.left.cols, LeftVisited.uid.column)
    /\ ColumnListContains(node.right.cols, RightVisited.uid.column)

UidTypesMatch ==
    /\ LeftVisited.uid.column.type = RightVisited.uid.column.type
    /\ SupportsEquality(LeftVisited.uid.column.type)

\* C3 as stated: with a uid on both inputs the join is rewritten only if its
\* predicate equates the two uids at the top level or under ANDs; every other
\* predicate is a user error, and adding 'AND left.uid = right.uid' makes the
\* same join succeed.
C3_AsStated ==
    (JoinDone /\ LeftPrivate /\ RightPrivate) =>
        /\ Succeeded =>
              EquatesUnderAnd(node.join_expr, LeftVisited.uid.column,
                              RightVisited.uid.column)
        /\ ~Succeeded => UserErrorRaised
        /\ UidsSelectable =>
              JoinSucceeds(WithUidEquality(node, LeftVisited.uid.column,
                                           RightVisited.uid.column))

\* C3 (amended): with a uid on both inputs the join is rewritten only if its
\* predicate is present and equates the left uid and the right uid, in either
\* argument order, at the top level or under ANDs of any depth; otherwise the
\* rewrite is a user error.  Adding 'AND left.uid = right.uid' at the top level
\* makes the join succeed provided the two uid columns have the same type and
\* that type supports equality.
C3_JoinValidation ==
    (JoinDone /\ LeftPrivate /\ RightPrivate) =>
        /\ Succeeded =>
              EquatesUnderAnd(node.join_expr, LeftVisited.uid.column,
                              RightVisited.uid.column)
        /\ ~Succeeded => UserErrorRaised
        /\ (UidsSelectable /\ UidTypesMatch) =>
              JoinSucceeds(WithUidEquality(node, LeftVisited.uid.column,
                                           RightVisited.uid.column))

\* A join of two private inputs whose predicate equates other columns only is
\* rejected, and is accepted with the uid equality added.
C3_Witness ==
    /\ JoinDone /\ LeftPrivate /\ RightPrivate /\ UidsSelectable /\ UidTypesMatch
    /\ node.join_expr = Equal(Col(2, "x", "INT64"), Col(3, "y", "INT64"))
    /\ UserErrorRaised
    /\ JoinSucceeds(WithUidEquality(node, LeftVisited.uid.column,
                                    RightVisited.uid.column))

\* C4: with a uid on exactly one input, a LEFT join without a uid on the left,
\* a RIGHT join without a uid on the right and a FULL join are user errors and
\* an INNER join succeeds whatever its predicate; with no uid on either input
\* the join is copied unchanged and the uid stays unset.
C4_OneSidedJoin ==
    JoinDone =>
        /\ (LeftPrivate # RightPrivate) =>
              /\ (node.join_type = "LEFT" /\ ~LeftPrivate) =>
                    fr.st.status = UserError(
                        "The left table in a LEFT OUTER join must contain user data")
              /\ (node.join_type = "RIGHT" /\ ~RightPrivate) =>
                    fr.st.status = UserError(
                        "The right table in a RIGHT OUTER join must contain user data")
              /\ node.join_type = "FULL" =>
                    fr.st.status = UserError(
                        "Both tables in a FULL OUTER join must contain user data")
              /\ node.join_type = "INNER" => Succeeded
        /\ (~LeftPrivate /\ ~RightPrivate) =>
              /\ Succeeded
              /\ fr.scan = node
              /\ ~IsInitialized(fr.uid.column)

\* An INNER join without a predicate, with a uid on the right input only, succeeds.
C4_Witness ==
    /\ JoinDone /\ ~LeftPrivate /\ RightPrivate
    /\ node.join_type = "INNER" /\ node.join_expr = NullExpr
    /\ Succeeded

Occurrences(cols, c) == Cardinality({i \in 1..Len(cols) : ColEq(cols[i], c)})

ExpectedJoinUid ==
    CASE node.join_type = "INNER" ->
            IF LeftPrivate THEN LeftVisited.uid.column ELSE RightVisited.uid.column
      [] node.join_type = "LEFT" -> LeftVisited.uid.column
      [] node.join_type = "RIGHT" -> RightVisited.uid.column
      [] OTHER -> NoColumn

\* C5: after a successful rewrite of a non-FULL join with a private input the
\* uid returned is the left uid for INNER when the left has one and else the
\* right uid, the left uid for LEFT, the right uid for RIGHT; the join outputs
\* that column, appended only when the original list did not have it.
C5_JoinUidSelection ==
    (JoinDone /\ Succeeded /\ node.join_type # "FULL" /\ (LeftPrivate \/ RightPrivate)) =>
        /\ fr.uid.column = ExpectedJoinUid
        /\ IsInitialized(fr.uid.column)
        /\ fr.scan.kind = "JoinScan"
        /\ fr.scan.cols =
              IF ColumnListContains(node.cols, fr.uid.column) THEN node.cols
              ELSE Append(node.cols, fr.uid.column)
        /\ Occurrences(fr.scan.cols, fr.uid.column) = 1

\* A LEFT join of two private inputs that already outputs the left uid.
C5_Witness ==
    /\ JoinDone /\ Succeeded /\ node.join_type = "LEFT"
    /\ LeftPrivate /\ RightPrivate
    /\ ColumnListContains(node.cols, LeftVisited.uid.column)
    /\ fr.uid.column = LeftVisited.uid.column
    /\ fr.scan.cols = node.cols

\* C6: a FULL join of two private inputs becomes a projection over the join
\* that computes one new column, coalesce(left uid, right uid); that fresh
\* column is the uid returned, the projection outputs the join's original
\* columns followed by it, and the join outputs both input uids.
C6_FullJoin ==
    (JoinDone /\ Succeeded /\ node.join_type = "FULL" /\ LeftPrivate /\ RightPrivate) =>
        /\ fr.scan.kind = "ProjectScan"
        /\ fr.scan.input.kind = "JoinScan"
        /\ Len(fr.scan.expr_list) = 1
        /\ fr.scan.expr_list[1].column = fr.uid.column
        /\ fr.scan.expr_list[1].expr.function = "coalesce"
        /\ fr.scan.expr_list[1].expr.args =
              <<ColumnRef(LeftVisited.uid.column), ColumnRef(RightVisited.uid.column)>>
        /\ fr.uid.column.id > RightVisited.st.max_col_id
        /\ fr.uid.column.id > MaxInputColumnId
        /\ fr.scan.cols = Append(node.cols, fr.uid.column)
        /\ ColumnListContains(fr.scan.input.cols, LeftVisited.uid.column)
        /\ ColumnListContains(fr.scan.input.cols, RightVisited.uid.column)

\* A FULL join of two private inputs, equated on their uids, was rewritten.
C6_Witness ==
    /\ JoinDone /\ Succeeded /\ node.join_type = "FULL"
    /\ LeftPrivate /\ RightPrivate
    /\ fr.scan.kind = "ProjectScan"
    /\ fr.scan.expr_list[1].expr.function = "coalesce"

---------------------------------------------------------------------------
(* Properties of the rewrite of a SetOperationScan *)

SetOperationDone == pc = "per_user_done" /\ node.kind = "SetOperationScan"
NumItems == Len(node.input_item_list)
\* What the visit of item i returns.
ItemVisited(i) ==
    VisitResolvedSetOperationItem(node.input_item_list[i],
                                  PerUserState(fr.st.select_with_mode_name))
ItemsRewritten == \A i \in 1..NumItems : IsOk(ItemVisited(i).st.status)
ItemCarriesUid(i) == IsInitialized(ItemVisited(i).uid.column)
AllCarryUid == \A i \in 1..NumItems : ItemCarriesUid(i)
NoneCarriesUid == \A i \in 1..NumItems : ~ItemCarriesUid(i)
\* The first item that differs from item 1 in carrying a uid.
IsFirstDiverging(i) ==
    /\ ItemCarriesUid(i) # ItemCarriesUid(1)
    /\ \A j \in 1..(i - 1) : ItemCarriesUid(j) = ItemCarriesUid(1)
\* The text that tells which of query 1 and query i is enabled for the mode.
DivergenceText(i) ==
    LET mode == IF fr.st.select_with_mode_name = "ANONYMIZATION"
                THEN "an anonymization" ELSE "a differential_privacy"
    IN "query 1 " \o (IF ItemCarriesUid(1) THEN "is " ELSE "is not ") \o mode
       \o "-enabled table expression, but query " \o ToString(i)
       \o (IF ItemCarriesUid(i) THEN " is" ELSE " is not")
ModeInLowerCase ==
    IF fr.st.select_with_mode_name = "ANONYMIZATION"
    THEN "anonymization" ELSE "differential_privacy"

\* C11: a set operation whose items are each rewritten is rewritten only if
\* all of its items carry a uid or none does; otherwise the rewrite is a
\* UserError whose message gives the number of the first item that differs
\* from item 1 and says which of the two lacks user data.  A UNION ALL of a
\* private and a non-private query names query 2 as the one that is not
\* enabled.
C11_SetOperationConsistency ==
    (SetOperationDone /\ ItemsRewritten) =>
        /\ Succeeded => (AllCarryUid \/ NoneCarriesUid)
        /\ NoneCarriesUid => Succeeded
        /\ ~(AllCarryUid \/ NoneCarriesUid) =>
              /\ UserErrorRaised
              /\ \E i \in 2..NumItems :
                    /\ IsFirstDiverging(i)
                    /\ fr.st.status.msg =
                          "Not all queries in "
                          \o SetOperationTypeToString(node.op_type) \o " are "
                          \o ModeInLowerCase
                          \o "-enabled table expressions; " \o DivergenceText(i)
        /\ (node.op_type = "UNION_ALL" /\ NumItems = 2
            /\ fr.st.select_with_mode_name = "ANONYMIZATION"
            /\ ItemCarriesUid(1) /\ ~ItemCarriesUid(2)) =>
              fr.st.status = UserError(
                  "Not all queries in UNION ALL are anonymization-enabled table "
                  \o "expressions; query 1 is an anonymization-enabled table "
                  \o "expression, but query 2 is not")

\* Three items, the first private, the second private, the third not: the
\* rewrite failed on query 3.
C11_Witness ==
    /\ SetOperationDone /\ ItemsRewritten /\ NumItems = 3
    /\ ItemCarriesUid(1) /\ ItemCarriesUid(2) /\ ~ItemCarriesUid(3)
    /\ UserErrorRaised

\* The position of the uid of item i in the output column list of the item.
ItemUidPosition(i) ==
    ColumnPosition(ItemVisited(i).scan.output_column_list, ItemVisited(i).uid.column)
SamePositions == \A i \in 1..NumItems : ItemUidPosition(i) = ItemUidPosition(1)

\* C12: when every item of a set operation carries a uid, the rewrite succeeds
\* exactly if the uid has the same position in the output column list of every
\* item, a mismatch is a UserError, and on success the uid handed to the
\* caller is the column at that position of the column list of the set
\* operation itself.
C12_SetOperationUidPosition ==
    (SetOperationDone /\ ItemsRewritten /\ AllCarryUid) =>
        /\ Succeeded <=> SamePositions
        /\ ~SamePositions => UserErrorRaised
        /\ Succeeded =>
              /\ fr.uid.column = node.cols[ItemUidPosition(1)]
              /\ fr.scan.kind = "SetOperationScan"
              /\ fr.scan.cols = node.cols
              /\ Len(fr.scan.input_item_list) = NumItems

\* Three items with the uid second in each: the uid is the second column of
\* the set operation.
C12_Witness ==
    /\ SetOperationDone /\ ItemsRewritten /\ AllCarryUid /\ NumItems = 3
    /\ Succeeded /\ ItemUidPosition(1) = 2
    /\ fr.uid.column = node.cols[2]

---------------------------------------------------------------------------
(* Privacy aggregate functions of the catalog *)

\* Per signature: the function's name, whether it is an AnonFunction, the
\* name of its per-user (partial) aggregate, and its NAMED_ONLY arguments as
\* <<name, 0-based position>>.
Fn(name, anon, partial, named_only) ==
    [name |-> name, anon |-> anon, partial |-> partial, named_only |-> named_only]

BoundsAt1 == <<[name |-> "contribution_bounds_per_group", index |-> 1]>>
ReportThenBounds ==
    <<[name |-> "report_format", index |-> 1],
      [name |-> "contribution_bounds_per_group", index |-> 2]>>

Functions ==
    [FN_ANON_COUNT_STAR |-> Fn("$anon_count_star", TRUE, "$count_star", << >>),
     FN_ANON_COUNT |-> Fn("anon_count", TRUE, "count", << >>),
     FN_ANON_COUNT_STAR_WITH_REPORT_JSON |->
        Fn("$anon_count_star_with_report_json", TRUE, "$count_star", << >>),
     FN_ANON_COUNT_WITH_REPORT_JSON |->
        Fn("$anon_count_with_report_json", TRUE, "count", << >>),
     FN_ANON_COUNT_STAR_WITH_REPORT_PROTO |->
        Fn("$anon_count_star_with_report_proto", TRUE, "$count_star", << >>),
     FN_ANON_COUNT_WITH_REPORT_PROTO |->
        Fn("$anon_count_with_report_proto", TRUE, "count", << >>),
     FN_ANON_SUM_INT64 |-> Fn("anon_sum", TRUE, "sum", << >>),
     FN_ANON_SUM_WITH_REPORT_JSON_INT64 |->
        Fn("$anon_sum_with_report_json", TRUE, "sum", << >>),
     FN_ANON_AVG_DOUBLE |-> Fn("anon_avg", TRUE, "avg", << >>),
     FN_ANON_VAR_POP_DOUBLE |-> Fn("anon_var_pop", TRUE, "array_agg", << >>),
     FN_DIFFERENTIAL_PRIVACY_COUNT_STAR |->
        Fn("$differential_privacy_count_star", TRUE, "$count_star", BoundsAt1),
     FN_DIFFERENTIAL_PRIVACY_COUNT |->
        Fn("$differential_privacy_count", TRUE, "count", BoundsAt1),
     FN_DIFFERENTIAL_PRIVACY_COUNT_STAR_REPORT_JSON |->
        Fn("$differential_privacy_count_star", TRUE, "$count_star", ReportThenBounds),
     FN_DIFFERENTIAL_PRIVACY_COUNT_STAR_REPORT_PROTO |->
        Fn("$differential_privacy_count_star", TRUE, "$count_star", ReportThenBounds),
     FN_DIFFERENTIAL_PRIVACY_COUNT_REPORT_JSON |->
        Fn("$differential_privacy_count", TRUE, "count", ReportThenBounds),
     FN_DIFFERENTIAL_PRIVACY_COUNT_REPORT_PROTO |->
        Fn("$differential_privacy_count", TRUE, "count", ReportThenBounds),
     FN_DIFFERENTIAL_PRIVACY_SUM_INT64 |->
        Fn("$differential_privacy_sum", TRUE, "sum", BoundsAt1),
     FN_DIFFERENTIAL_PRIVACY_AVG_DOUBLE |->
        Fn("$differential_privacy_avg", TRUE, "avg", BoundsAt1),
     FN_SUM_INT64 |-> Fn("sum", FALSE, "", << >>)]

\* A ResolvedAggregateFunctionCall of the input.
AggregateFunctionCall(sig, args, type) ==
    [kind |-> "AggregateFunctionCall", sig |-> sig, function |-> Functions[sig].name,
     args |-> args, type |-> type]


IsCountStarFunction(sig) ==
    sig \in {"FN_ANON_COUNT_STAR", "FN_ANON_COUNT_STAR_WITH_REPORT_JSON",
             "FN_ANON_COUNT_STAR_WITH_REPORT_PROTO",
             "FN_DIFFERENTIAL_PRIVACY_COUNT_STAR",
             "FN_DIFFERENTIAL_PRIVACY_COUNT_STAR_REPORT_JSON",
             "FN_DIFFERENTIAL_PRIVACY_COUNT_STAR_REPORT_PROTO"}

HasInnerAggregateArray(sig) ==
    sig \in {"FN_ANON_VAR_POP_DOUBLE", "FN_ANON_STDDEV_POP_DOUBLE",
             "FN_ANON_PERCENTILE_CONT_DOUBLE", "FN_ANON_QUANTILES_DOUBLE",
             "FN_ANON_QUANTILES_DOUBLE_WITH_REPORT_JSON",
             "FN_ANON_QUANTILES_DOUBLE_WITH_REPORT_PROTO",
             "FN_DIFFERENTIAL_PRIVACY_VAR_POP_DOUBLE",
             "FN_DIFFERENTIAL_PRIVACY_STDDEV_POP_DOUBLE",
             "FN_DIFFERENTIAL_PRIVACY_PERCENTILE_CONT_DOUBLE",
             "FN_DIFFERENTIAL_PRIVACY_QUANTILES_DOUBLE",
             "FN_DIFFERENTIAL_PRIVACY_QUANTILES_DOUBLE_REPORT_JSON",
             "FN_DIFFERENTIAL_PRIVACY_QUANTILES_DOUBLE_REPORT_PROTO"}

---------------------------------------------------------------------------
(* Private aggregate scans and their options *)



GetOptions(n) == n.options

\* zetasql_base::CaseEqual on the option names that occur.
LowerCase ==
    [KAPPA |-> "kappa", Kappa |-> "kappa",
     MAX_GROUPS_CONTRIBUTED |-> "max_groups_contributed",
     Max_Groups_Contributed |-> "max_groups_contributed",
     PRIVACY_UNIT_COLUMN |-> "privacy_unit_column"]
ToLower(s) == IF s \in DOMAIN LowerCase THEN LowerCase[s] ELSE s
CaseEqual(a, b) == ToLower(a) = ToLower(b)

\* DPNodeSpecificData<NodeType>
IsMaxGroupsContributedOption(family, argument_name) ==
    IF family = "ANONYMIZATION"
    THEN CaseEqual(argument_name, "kappa")
         \/ CaseEqual(argument_name, "max_groups_contributed")
    ELSE CaseEqual(argument_name, "max_groups_contributed")

kDefaultMaxGroupsContributedOptionName(family) == "max_groups_contributed"

kMaxGroupsContributedErrorPrefix(family) ==
    IF family = "ANONYMIZATION"
    THEN "Anonymization option MAX_GROUPS_CONTRIBUTED (aka KAPPA)"
    ELSE "Option MAX_GROUPS_CONTRIBUTED"

\* std::optional<Value>
NoValue == [has_value |-> FALSE, value |-> NullInt64]
SomeValue(v) == [has_value |-> TRUE, value |-> v]

\* The lower bound of the accepted range, as compared in the code and in a
\* variant that admits zero.
BelowRangeFromZero(v) == ValueLess(v, Int64(0))
BelowRange(v) == ValueLess(v, Int64(1))

\* ValidateMaxGroupsContributed: the status and, when it is ok, the value.
ValidateMaxGroupsContributed(option, dp_option_error_prefix) ==
    LET invalid_value_message ==
            [status |-> UserError(dp_option_error_prefix
                        \o " must be an INT64 literal between 1 and 2147483647"),
             value |-> NullInt64]
    IN IF option.value.kind # "Literal" \/ option.value.type # "INT64"
       THEN invalid_value_message
       ELSE LET max_groups_contributed == option.value.value
            IN IF max_groups_contributed.null
               THEN [status |-> Ok, value |-> max_groups_contributed]
               ELSE IF BelowRange(max_groups_contributed)
                       \/ ValueLess(Int32Max, max_groups_contributed)
                    THEN invalid_value_message
                    ELSE [status |-> Ok, value |-> max_groups_contributed]

\* Lines 2694-2708 of the template: look for max_groups_contributed in the
\* first k options.
RECURSIVE FindMaxGroupsContributed(_, _)
FindMaxGroupsContributed(n, k) ==
    IF k = 0 THEN [status |-> Ok, max_groups_contributed |-> NoValue]
    ELSE LET before == FindMaxGroupsContributed(n, k - 1)
             option == GetOptions(n)[k]
         IN IF ~IsOk(before.status) THEN before
            ELSE IF ~IsMaxGroupsContributedOption(n.family, option.name) THEN before
            ELSE IF before.max_groups_contributed.has_value
                 THEN [before EXCEPT !.status = InternalError(
                          kMaxGroupsContributedErrorPrefix(n.family)
                          \o " can only be set once")]
                 ELSE LET v == ValidateMaxGroupsContributed(
                                   option, kMaxGroupsContributedErrorPrefix(n.family))
                      IN [status |-> v.status,
                          max_groups_contributed |->
                             IF IsOk(v.status) THEN SomeValue(v.value) ELSE NoValue]

---------------------------------------------------------------------------
(* InnerAggregateListRewriterVisitor *)


\* The type the resolver gives a call of the named function.
FunctionResultType(function_name, arguments) ==
    CASE function_name \in {"$count_star", "count"} -> "INT64"
      [] function_name \in {"avg", "rand"} -> "DOUBLE"
      [] function_name = "array_agg" -> "ARRAY<DOUBLE>"
      [] function_name \in {"$anon_sum_with_report_json"} -> "JSON"
      [] function_name \in {"$anon_sum_with_report_proto"} -> "PROTO"
      [] function_name \in {"anon_avg", "$differential_privacy_avg", "anon_var_pop"} -> "DOUBLE"
      [] OTHER -> IF Len(arguments) > 0 THEN arguments[1].type ELSE "INT64"

\* std::map<ResolvedColumn, ResolvedColumn>, as the sequence of its entries in
\* insertion order; emplace keeps an existing entry.
MapHas(m, c) == \E i \in 1..Len(m) : ColEq(m[i].old, c)
MapAt(m, c) == m[CHOOSE i \in 1..Len(m) : ColEq(m[i].old, c)].new
MapEmplace(m, old, new) ==
    IF MapHas(m, old) THEN m ELSE Append(m, [old |-> old, new |-> new])

kPerUserArrayAggLimit == Int64(5)

\* ResolveInnerAggregateFunctionCallForAnonFunction.  v carries the state of
\* the visitor: st, order_by_column, injected_col_map; the result adds expr.
ResolveInnerAggregateFunctionCallForAnonFunction(call, v, select_with_identifier) ==
    IF ~Functions[call.sig].anon
    THEN [v EXCEPT !.st = Fail(@, UserError("Unsupported function in SELECT WITH "
                                 \o select_with_identifier \o " select list: "
                                 \o call.function))]
    ELSE
      LET arguments == IF IsCountStarFunction(call.sig) THEN << >>
                       ELSE SubSeq(call.args, 1, 1)
          partial == Functions[call.sig].partial
          result == ResolveFunctionCall("AggregateFunctionCall", partial, arguments,
                                        << >>, FunctionResultType(partial, arguments))
      IN IF HasInnerAggregateArray(call.sig)
         THEN LET fresh == ~IsInitialized(v.order_by_column)
                  order_by_column ==
                      IF fresh THEN MakeCol(v.st, "$orderbycol1", "DOUBLE")
                      ELSE v.order_by_column
              IN [v EXCEPT !.st = IF fresh THEN MakeColState(@) ELSE @,
                           !.order_by_column = order_by_column,
                           !.expr = [result EXCEPT !.named =
                               <<[name |-> "order_by", value |-> MakeColRef(order_by_column)],
                                 [name |-> "limit",
                                  value |-> Literal("INT64", kPerUserArrayAggLimit)]>>]]
         ELSE [v EXCEPT !.expr = result]

\* InnerAggregateListRewriterVisitor::VisitResolvedComputedColumn: copy the
\* expression (re-resolving an aggregate call), then bind it to a new
\* intermediate column recorded in the injected column map.
InnerVisitResolvedComputedColumn(cc, v, select_with_identifier) ==
    LET copied == IF cc.expr.kind = "AggregateFunctionCall"
                  THEN ResolveInnerAggregateFunctionCallForAnonFunction(
                           cc.expr, v, select_with_identifier)
                  ELSE [v EXCEPT !.expr = cc.expr]
    IN IF ~IsOk(copied.st.status) THEN copied
       ELSE LET old_column == cc.column
                injected_column == MakeCol(copied.st, old_column.name \o "_partial",
                                           copied.expr.type)
            IN [copied EXCEPT
                   !.st = MakeColState(@),
                   !.injected_col_map = MapEmplace(@, old_column, injected_column),
                   !.list = Append(@, ComputedColumn(injected_column, copied.expr))]

\* RewriteAggregateColumns / RewriteGroupByColumns over the first k entries.
RECURSIVE InnerRewriteColumns(_, _, _, _)
InnerRewriteColumns(list, k, v, select_with_identifier) ==
    IF k = 0 THEN [v EXCEPT !.list = << >>]
    ELSE LET before == InnerRewriteColumns(list, k - 1, v, select_with_identifier)
         IN IF ~IsOk(before.st.status) THEN before
            ELSE InnerVisitResolvedComputedColumn(list[k], before, select_with_identifier)

InnerVisitor(st) ==
    [st |-> st, order_by_column |-> NoColumn, injected_col_map |-> << >>,
     list |-> << >>, expr |-> NullExpr]

---------------------------------------------------------------------------
(* The per-user transform *)


\* std::optional<const ResolvedExpr*>
NoExpr == [has_value |-> FALSE, value |-> NullExpr]
SomeExpr(e) == [has_value |-> TRUE, value |-> e]

\* PrivacyUnitColumnValidator: column references and field accesses only.
RECURSIVE PrivacyUnitColumnValid(_)
PrivacyUnitColumnValid(e) ==
    CASE e.kind = "ColumnRef" -> TRUE
      [] e.kind \in {"GetStructField", "GetProtoField"} -> PrivacyUnitColumnValid(e.expr)
      [] OTHER -> FALSE

\* ExtractUidColumnFromOptions over the first k options.
RECURSIVE ExtractUidColumnFromOptionsUpTo(_, _)
ExtractUidColumnFromOptionsUpTo(n, k) ==
    IF k = 0 THEN [status |-> Ok, result |-> NoExpr]
    ELSE LET before == ExtractUidColumnFromOptionsUpTo(n, k - 1)
             option == n.options[k]
         IN IF ~IsOk(before.status) THEN before
            ELSE IF ~CaseEqual(option.name, "privacy_unit_column") THEN before
            ELSE IF before.result.has_value
                 THEN [before EXCEPT !.status =
                          UserError("Option privacy_unit_column must only be set once")]
            ELSE IF ~PrivacyUnitColumnValid(option.value)
                 THEN [before EXCEPT !.status =
                          UserError("Unsupported privacy_unit_column definition")]
            ELSE [before EXCEPT !.result = SomeExpr(option.value)]

ExtractUidColumnFromOptions(n) ==
    IF n.family = "ANONYMIZATION" THEN [status |-> Ok, result |-> NoExpr]
    ELSE ExtractUidColumnFromOptionsUpTo(n, Len(n.options))

\* The privacy unit of the table metadata is taken when there is one, and the
\* option is then left aside.
ChooseUidColumnOfTable(n, per_user_visitor_uid_column_state, options_uid_column) ==
    IF IsInitialized(per_user_visitor_uid_column_state.column)
    THEN [status |-> Ok, expr |-> MakeColRef(per_user_visitor_uid_column_state.column)]
    ELSE IF options_uid_column.has_value
         THEN [status |-> Ok, expr |-> options_uid_column.value]
         ELSE [status |-> UserError("A SELECT WITH " \o n.family
                   \o " query must query data with a specified privacy unit column"),
               expr |-> NullExpr]

\* RewriterVisitor::ChooseUidColumn
ChooseUidColumn(n, per_user_visitor_uid_column_state, options_uid_column) ==
    IF options_uid_column.has_value
    THEN IF IsInitialized(per_user_visitor_uid_column_state.column)
         THEN [status |-> UserError("privacy_unit_column option cannot override the "
                   \o "privacy unit column set in the table metadata"),
               expr |-> NullExpr]
         ELSE [status |-> Ok, expr |-> options_uid_column.value]
    ELSE IF IsInitialized(per_user_visitor_uid_column_state.column)
         THEN [status |-> Ok, expr |-> MakeColRef(per_user_visitor_uid_column_state.column)]
         ELSE [status |-> UserError("A SELECT WITH " \o n.family
                   \o " query must query data with a specified privacy unit column"),
               expr |-> NullExpr]

MakePerUserAggregateScan(input_scan, aggregate_list, group_by_list) ==
    AggregateScan(ColumnsOf(aggregate_list) \o ColumnsOf(group_by_list),
                  input_scan, group_by_list, aggregate_list)

\* Lines 2271-2275: group by the $uid column.
GroupByUid(inner_group_by_list, uid_column, inner_uid_column) ==
    Append(inner_group_by_list, ComputedColumn(uid_column, inner_uid_column))

PerUserResult(st, input_scan, inner_uid_column, uid_column, injected_col_map) ==
    [st |-> st, input_scan |-> input_scan, inner_uid_column |-> inner_uid_column,
     uid_column |-> uid_column, injected_col_map |-> injected_col_map]
PerUserFailed(st) == PerUserResult(st, NullScan, NoColumn, NoColumn, << >>)

\* The per-user aggregate scan, were it always to read the rewritten input.
PerUserTransformResultUnprojected(per_user, aggs, groups, inner_uid_column, uid_column) ==
    PerUserResult(MakeColState(groups.st),
        MakePerUserAggregateScan(per_user.scan, aggs.list,
            GroupByUid(groups.list, uid_column, inner_uid_column)),
        per_user.uid.column, uid_column, groups.injected_col_map)

\* RewritePerUserTransform, lines 2276-2314: group by the $uid column; when an
\* aggregate needs it, compute the ORDER BY column in a projection beneath the
\* per-user aggregate scan.
PerUserTransformResult(per_user, aggs, groups, inner_uid_column, uid_column) ==
    PerUserResult(MakeColState(groups.st),
        MakePerUserAggregateScan(
            IF IsInitialized(groups.order_by_column)
            THEN ProjectScan(
                     Append(per_user.scan.cols, groups.order_by_column),
                     <<ComputedColumn(groups.order_by_column,
                           ResolveFunctionCall("FunctionCall", "rand", << >>, << >>,
                                               FunctionResultType("rand", << >>)))>>,
                     per_user.scan)
            ELSE per_user.scan,
            aggs.list,
            GroupByUid(groups.list, uid_column, inner_uid_column)),
        per_user.uid.column, uid_column, groups.injected_col_map)

\* RewritePerUserTransform, lines 2262-2275: choose the uid and allocate the
\* column it is grouped by.
PerUserTransformGroupByUid(per_user, aggs, groups, chosen) ==
    IF ~IsOk(groups.st.status) THEN PerUserFailed(groups.st)
    ELSE IF ~IsOk(chosen.status) THEN PerUserFailed(Fail(groups.st, chosen.status))
    ELSE IF ~SupportsGrouping(chosen.expr.type)
         THEN PerUserFailed(Fail(groups.st,
                  InternalError("inner_uid_column->type()->SupportsGrouping")))
    ELSE PerUserTransformResult(per_user, aggs, groups, chosen.expr,
                                MakeCol(groups.st, "$uid", chosen.expr.type))

\* RewritePerUserTransform, lines 2258-2261: the group-by columns follow the
\* aggregate columns through the same inner visitor.
PerUserTransformGroups(n, per_user, aggs, options_uid_column) ==
    IF ~IsOk(aggs.st.status) THEN PerUserFailed(aggs.st)
    ELSE PerUserTransformGroupByUid(per_user, aggs,
             InnerRewriteColumns(n.group_by_list, Len(n.group_by_list), aggs, n.family),
             ChooseUidColumn(n, per_user.uid, options_uid_column))

\* RewritePerUserTransform, lines 2253-2257, on the result of the visit of the
\* input scan.
PerUserTransformAggregates(n, per_user, options_uid_column) ==
    IF ~IsOk(per_user.st.status) THEN PerUserFailed(per_user.st)
    ELSE PerUserTransformGroups(n, per_user,
             InnerRewriteColumns(n.aggregate_list, Len(n.aggregate_list),
                                 InnerVisitor(per_user.st), n.family),
             options_uid_column)

\* RewriterVisitor::RewritePerUserTransform
RewritePerUserTransform(n, st, options_uid_column) ==
    PerUserTransformAggregates(n, PerUserVisit(n.input, st), options_uid_column)

---------------------------------------------------------------------------
(* OuterAggregateListRewriterVisitor *)

\* The cross-user function keeps the name of the original function.
OuterTargetSameName(call) == call.function

\* The name of the cross-user function (the switch at lines 556-626).
OuterTarget(call) ==
    CASE call.sig \in {"FN_ANON_COUNT_STAR", "FN_ANON_COUNT"} -> "anon_sum"
      [] call.sig \in {"FN_ANON_COUNT_STAR_WITH_REPORT_JSON",
                       "FN_ANON_COUNT_WITH_REPORT_JSON"} -> "$anon_sum_with_report_json"
      [] call.sig \in {"FN_ANON_COUNT_STAR_WITH_REPORT_PROTO",
                       "FN_ANON_COUNT_WITH_REPORT_PROTO"} -> "$anon_sum_with_report_proto"
      [] call.sig \in {"FN_DIFFERENTIAL_PRIVACY_COUNT_STAR",
                       "FN_DIFFERENTIAL_PRIVACY_COUNT",
                       "FN_DIFFERENTIAL_PRIVACY_COUNT_STAR_REPORT_JSON",
                       "FN_DIFFERENTIAL_PRIVACY_COUNT_STAR_REPORT_PROTO",
                       "FN_DIFFERENTIAL_PRIVACY_COUNT_REPORT_JSON",
                       "FN_DIFFERENTIAL_PRIVACY_COUNT_REPORT_PROTO"}
            -> "$differential_privacy_sum"
      [] OTHER -> call.function

\* The named arguments handed to the resolver.
OuterNamedArguments(call, arguments) ==
    CASE call.sig \in {"FN_ANON_COUNT_STAR", "FN_ANON_COUNT",
                       "FN_ANON_COUNT_STAR_WITH_REPORT_JSON",
                       "FN_ANON_COUNT_WITH_REPORT_JSON",
                       "FN_ANON_COUNT_STAR_WITH_REPORT_PROTO",
                       "FN_ANON_COUNT_WITH_REPORT_PROTO"} -> << >>
      [] call.sig \in {"FN_DIFFERENTIAL_PRIVACY_COUNT_STAR",
                       "FN_DIFFERENTIAL_PRIVACY_COUNT"} -> BoundsAt1
      [] call.sig \in {"FN_DIFFERENTIAL_PRIVACY_COUNT_STAR_REPORT_JSON",
                       "FN_DIFFERENTIAL_PRIVACY_COUNT_STAR_REPORT_PROTO",
                       "FN_DIFFERENTIAL_PRIVACY_COUNT_REPORT_JSON",
                       "FN_DIFFERENTIAL_PRIVACY_COUNT_REPORT_PROTO"} -> ReportThenBounds
      [] OTHER -> SelectSeq(Functions[call.sig].named_only,
                            LAMBDA a : a.index < Len(arguments))

\* ResolveOuterAggregateFunctionCallForAnonFunction
ResolveOuterAggregateFunctionCallForAnonFunction(call, target_column, arguments) ==
    LET with_dummy == IF IsCountStarFunction(call.sig)
                      THEN <<NullExpr>> \o arguments ELSE arguments
        args == [with_dummy EXCEPT ![1] = MakeColRef(target_column)]
    IN ResolveFunctionCall("AggregateFunctionCall", OuterTarget(call), args,
                           OuterNamedArguments(call, with_dummy),
                           FunctionResultType(OuterTarget(call), args))

NumericTypes == {"INT64", "UINT64", "NUMERIC"}

IsLiteralWithValueEqualTo(expr, expected_value) ==
    /\ expr.kind = "Literal"
    /\ expr.type \in NumericTypes
    /\ ~expr.value.null /\ expr.value = expected_value

IsLiteralWithValueGreaterThanOrEqualTo(expr, lower_bound) ==
    /\ expr.kind = "Literal"
    /\ expr.type \in NumericTypes
    /\ ~expr.value.null
    /\ (ValueLess(lower_bound, expr.value) \/ lower_bound = expr.value)

IsNonNullLiteral(expr) == expr.kind = "Literal" /\ ~expr.value.null

IsUidColumn(expr, uid_column_id) ==
    expr.kind = "ColumnRef" /\ expr.column.id = uid_column_id

\* A struct literal: its value lists the field types and the field values.
StructLiteral(field_types, fields) ==
    Literal("STRUCT", [null |-> FALSE, field_types |-> field_types, fields |-> fields])

check_dp_contribution_bounds(expr) ==
    /\ expr.kind = "Literal"
    /\ expr.type = "STRUCT" /\ Len(expr.value.field_types) = 2
    /\ ~expr.value.null /\ Len(expr.value.fields) = 2
    /\ expr.value.field_types[1] \in NumericTypes
    /\ expr.value.fields[1] = Int64(0)
    /\ expr.value.field_types[2] \in NumericTypes
    /\ expr.value.fields[2] = Int64(1)

IsCountUniqueUsers(function_call, uid_column_id) ==
    LET arguments == function_call.args
        sig == function_call.sig
    IN CASE sig \in {"FN_ANON_COUNT_STAR", "FN_ANON_COUNT_STAR_WITH_REPORT_PROTO",
                     "FN_ANON_COUNT_STAR_WITH_REPORT_JSON"} ->
               /\ Len(arguments) = 2
               /\ IsLiteralWithValueEqualTo(arguments[1], Int64(0))
               /\ IsLiteralWithValueEqualTo(arguments[2], Int64(1))
         [] sig \in {"FN_ANON_COUNT", "FN_ANON_COUNT_WITH_REPORT_PROTO",
                     "FN_ANON_COUNT_WITH_REPORT_JSON"} ->
               /\ Len(arguments) = 3
               /\ (IsNonNullLiteral(arguments[1]) \/ IsUidColumn(arguments[1], uid_column_id))
               /\ IsLiteralWithValueEqualTo(arguments[2], Int64(0))
               /\ IsLiteralWithValueEqualTo(arguments[3], Int64(1))
         [] sig \in {"FN_ANON_SUM_INT64", "FN_ANON_SUM_WITH_REPORT_PROTO_INT64",
                     "FN_ANON_SUM_WITH_REPORT_JSON_INT64", "FN_ANON_SUM_UINT64",
                     "FN_ANON_SUM_WITH_REPORT_PROTO_UINT64",
                     "FN_ANON_SUM_WITH_REPORT_JSON_UINT64", "FN_ANON_SUM_NUMERIC"} ->
               /\ Len(arguments) = 3
               /\ IsLiteralWithValueGreaterThanOrEqualTo(arguments[1], Int64(1))
               /\ IsLiteralWithValueEqualTo(arguments[2], Int64(0))
               /\ IsLiteralWithValueEqualTo(arguments[3], Int64(1))
         [] sig = "FN_DIFFERENTIAL_PRIVACY_COUNT" ->
               /\ Len(arguments) = 2
               /\ (IsNonNullLiteral(arguments[1]) \/ IsUidColumn(arguments[1], uid_column_id))
               /\ check_dp_contribution_bounds(arguments[2])
         [] sig = "FN_DIFFERENTIAL_PRIVACY_COUNT_STAR" ->
               /\ Len(arguments) = 1
               /\ check_dp_contribution_bounds(arguments[1])
         [] sig = "FN_DIFFERENTIAL_PRIVACY_SUM_INT64" ->
               /\ Len(arguments) = 2
               /\ IsLiteralWithValueGreaterThanOrEqualTo(arguments[1], Int64(1))
               /\ check_dp_contribution_bounds(arguments[2])
         [] OTHER -> FALSE

\* The last aggregate that counts the unique users is the one kept.
RECURSIVE OuterRewriteKeepingLast(_, _, _, _, _)
OuterRewriteKeepingLast(list, k, injected_col_map, inner_uid_column, cfg) ==
    IF k = 0 THEN [list |-> << >>, unique_users_count_column |-> NoColumn]
    ELSE LET before == OuterRewriteKeepingLast(list, k - 1, injected_col_map,
                                               inner_uid_column, cfg)
             current_column == list[k].column
             result == ResolveOuterAggregateFunctionCallForAnonFunction(
                           list[k].expr, MapAt(injected_col_map, current_column),
                           list[k].expr.args)
             found == /\ (cfg.FEATURE_ANONYMIZATION_THRESHOLDING
                          \/ cfg.FEATURE_DIFFERENTIAL_PRIVACY_THRESHOLDING)
                      /\ IsCountUniqueUsers(list[k].expr, inner_uid_column.id)
         IN [list |-> Append(before.list, ComputedColumn(current_column, result)),
             unique_users_count_column |->
                 IF found THEN current_column ELSE before.unique_users_count_column]

\* OuterAggregateListRewriterVisitor::RewriteAggregateColumns over the first k
\* aggregates: the rewritten list and unique_users_count_column_.
RECURSIVE OuterRewriteAggregateColumns(_, _, _, _, _)
OuterRewriteAggregateColumns(list, k, injected_col_map, inner_uid_column, cfg) ==
    IF k = 0 THEN [list |-> << >>, unique_users_count_column |-> NoColumn]
    ELSE LET before == OuterRewriteAggregateColumns(list, k - 1, injected_col_map,
                                                    inner_uid_column, cfg)
             current_column == list[k].column
             result == ResolveOuterAggregateFunctionCallForAnonFunction(
                           list[k].expr, MapAt(injected_col_map, current_column),
                           list[k].expr.args)
             found == /\ (cfg.FEATURE_ANONYMIZATION_THRESHOLDING
                          \/ cfg.FEATURE_DIFFERENTIAL_PRIVACY_THRESHOLDING)
                      /\ ~IsInitialized(before.unique_users_count_column)
                      /\ IsCountUniqueUsers(list[k].expr, inner_uid_column.id)
         IN [list |-> Append(before.list, ComputedColumn(current_column, result)),
             unique_users_count_column |->
                 IF found THEN current_column ELSE before.unique_users_count_column]

---------------------------------------------------------------------------
(* Group selection threshold, options and the cross-partition sample *)



\* AnonOutputWithReport -> value -> int_value
MakeExtractCountFromAnonOutputWithReportProto(unique_users_count_column) ==
    GetProtoField(
        GetProtoField(MakeColRef(unique_users_count_column), "value", "PROTO"),
        "int_value", "INT64")

\* int64(json_query(unique_users_count_column, "$.result.value"))
MakeExtractCountFromAnonOutputWithReportJson(unique_users_count_column) ==
    FunctionCallOfType("FN_JSON_TO_INT64",
        <<FunctionCallOfType("FN_JSON_QUERY_JSON",
              <<MakeColRef(unique_users_count_column),
                Literal("STRING", StringValue("$.result.value"))>>, "JSON")>>,
        "INT64")

\* RewriterVisitor::MakeGroupSelectionThresholdFunctionColumn, both overloads.
MakeGroupSelectionThresholdFunctionColumn(n, st) ==
    IF n.family = "ANONYMIZATION"
    THEN LET argument_list == <<Literal("INT64", Int64(1)), Literal("INT64", Int64(0)),
                                Literal("INT64", Int64(1))>>
             call == ResolveFunctionCall("AggregateFunctionCall", "anon_sum",
                         argument_list, << >>,
                         FunctionResultType("anon_sum", argument_list))
         IN ComputedColumn(MakeCol(st, "$k_threshold_col", call.type), call)
    ELSE LET argument_list ==
                 <<Literal("INT64", Int64(1)),
                   StructLiteral(<<"INT64", "INT64">>, <<Int64(0), Int64(1)>>)>>
             call == ResolveFunctionCall("AggregateFunctionCall",
                         "$differential_privacy_sum", argument_list, BoundsAt1,
                         FunctionResultType("$differential_privacy_sum", argument_list))
         IN ComputedColumn(MakeCol(st, "$group_selection_threshold_col", call.type), call)

\* The count is extracted from a JSON report whether or not the JSON
\* functions are enabled.
ThresholdFromJsonAlways(n, unique_users_count_column, cfg) ==
    IF ~IsInitialized(unique_users_count_column) THEN NullExpr
    ELSE IF n.family = "ANONYMIZATION" /\ cfg.FEATURE_ANONYMIZATION_THRESHOLDING
    THEN CASE unique_users_count_column.type = "PROTO" ->
                 MakeExtractCountFromAnonOutputWithReportProto(unique_users_count_column)
           [] unique_users_count_column.type = "JSON" ->
                 MakeExtractCountFromAnonOutputWithReportJson(unique_users_count_column)
           [] OTHER -> MakeColRef(unique_users_count_column)
    ELSE IF n.family = "DIFFERENTIAL_PRIVACY"
            /\ cfg.FEATURE_DIFFERENTIAL_PRIVACY_THRESHOLDING
    THEN IF unique_users_count_column.type = "PROTO" THEN NullExpr
         ELSE MakeColRef(unique_users_count_column)
    ELSE NullExpr

\* Lines 2725-2776: the threshold taken from a user aggregate that counts
\* unique users, or NullExpr when there is none to take.
ThresholdFromUniqueUsers(n, unique_users_count_column, cfg) ==
    IF ~IsInitialized(unique_users_count_column) THEN NullExpr
    ELSE IF n.family = "ANONYMIZATION" /\ cfg.FEATURE_ANONYMIZATION_THRESHOLDING
    THEN CASE unique_users_count_column.type = "PROTO" ->
                 MakeExtractCountFromAnonOutputWithReportProto(unique_users_count_column)
           [] unique_users_count_column.type = "JSON" ->
                 IF cfg.FEATURE_JSON_VALUE_EXTRACTION_FUNCTIONS
                 THEN MakeExtractCountFromAnonOutputWithReportJson(
                          unique_users_count_column)
                 ELSE NullExpr
           [] OTHER -> MakeColRef(unique_users_count_column)
    ELSE IF n.family = "DIFFERENTIAL_PRIVACY"
            /\ cfg.FEATURE_DIFFERENTIAL_PRIVACY_THRESHOLDING
    THEN IF unique_users_count_column.type = "PROTO" THEN NullExpr
         ELSE MakeColRef(unique_users_count_column)
    ELSE NullExpr

\* The group by list, were it to refer to the columns of the node.
OuterGroupByListUnmapped(n, injected_col_map) ==
    [i \in 1..Len(n.group_by_list) |->
        ComputedColumn(n.group_by_list[i].column,
                       MakeColRef(n.group_by_list[i].column))]

\* Lines 2789-2798: the cross-user GROUP BY refers to the intermediate columns.
OuterGroupByList(n, injected_col_map) ==
    [i \in 1..Len(n.group_by_list) |->
        ComputedColumn(n.group_by_list[i].column,
                       MakeColRef(MapAt(injected_col_map, n.group_by_list[i].column)))]

\* The name of the option is compared as it is written.
CopyOptionsCaseSensitive(n) ==
    SelectSeq(GetOptions(n), LAMBDA o : o.name # "privacy_unit_column")

\* Lines 2800-2813: the options forwarded to the new scan.
CopyOptions(n) ==
    SelectSeq(GetOptions(n), LAMBDA o : ~CaseEqual(o.name, "privacy_unit_column"))


\* The ZETASQL_RET_CHECK at lines 2453-2458.
DefaultInRange(d) == ~ValueLess(d, Int64(0)) /\ ValueLess(d, Int32Max)

\* A value explicitly set to NULL is treated as one that was not set.
ExplicitNullIgnored(max_groups_contributed) == FALSE

\* The test at line 2445.
ExplicitNull(max_groups_contributed) ==
    max_groups_contributed.has_value /\ max_groups_contributed.value.null

\* RewriterVisitor::AddCrossPartitionSampleScan: the status, the input scan
\* and the option list.
AddCrossPartitionSampleScan(input_scan, max_groups_contributed, option_name, uid_column, options, cfg) ==
    IF ExplicitNull(max_groups_contributed)
    THEN [status |-> Ok, input_scan |-> input_scan, options |-> options]
    ELSE
      LET default_max_groups_contributed == cfg.default_anon_kappa_value
      IN IF ~DefaultInRange(default_max_groups_contributed)
         THEN [status |-> InternalError("Default max_groups_contributed value must "
                   \o "be an int64_t between 0 and 2147483647"),
               input_scan |-> input_scan, options |-> options]
         ELSE
           LET adopt == ~max_groups_contributed.has_value
                        /\ ValueLess(Int64(0), default_max_groups_contributed)
               value == IF adopt THEN SomeValue(default_max_groups_contributed)
                        ELSE max_groups_contributed
               options1 == IF adopt
                           THEN Append(options,
                                    Option(option_name, Literal("INT64", value.value)))
                           ELSE options
           IN [status |-> Ok,
               input_scan |->
                   IF value.has_value /\ ~value.value.null
                   THEN SampleScan(input_scan.cols, input_scan, "RESERVOIR",
                                   Literal("INT64", value.value), "ROWS",
                                   <<MakeColRef(uid_column)>>)
                   ELSE input_scan,
               options |-> options1]

---------------------------------------------------------------------------
(* RewriterVisitor::VisitResolvedDifferentialPrivacyAggregateScanTemplate *)

\* The locals of one execution of the template.
Frame(st) ==
    [st |-> st, max_groups_contributed |-> NoValue, input_scan |-> NullScan,
     inner_uid_column |-> NoColumn, uid_column |-> NoColumn,
     injected_col_map |-> << >>, outer_aggregate_list |-> << >>,
     unique_users_count_column |-> NoColumn,
     threshold |-> NullExpr, outer_group_by_list |-> << >>, options |-> << >>,
     scan |-> NullScan]

\* ZETASQL_RETURN_IF_ERROR / ZETASQL_ASSIGN_OR_RETURN: the step runs when
\* what came before it succeeded.
AndThen(f, Step(_)) == IF IsOk(f.st.status) THEN Step(f) ELSE f

TemplateOptionsFound(f, found) ==
    [f EXCEPT !.st = Fail(@, found.status),
              !.max_groups_contributed = found.max_groups_contributed]

\* Lines 2694-2708
TemplateOptions(n, f) ==
    TemplateOptionsFound(f, FindMaxGroupsContributed(n, Len(GetOptions(n))))

TemplatePerUserResult(f, r) ==
    [f EXCEPT !.st = r.st, !.input_scan = r.input_scan,
              !.inner_uid_column = r.inner_uid_column,
              !.uid_column = r.uid_column,
              !.injected_col_map = r.injected_col_map]

TemplatePerUserWith(n, f, options_uid_column) ==
    IF ~IsOk(options_uid_column.status)
    THEN [f EXCEPT !.st = Fail(@, options_uid_column.status)]
    ELSE TemplatePerUserResult(f,
             RewritePerUserTransform(n, f.st, options_uid_column.result))

\* Lines 2710-2717
TemplatePerUser(n, f) == TemplatePerUserWith(n, f, ExtractUidColumnFromOptions(n))

\* Lines 2777-2787: without a threshold taken from a user aggregate, the
\* aggregate that counts the unique users is added to the list.
TemplateOuterAggregates(n, f, cfg, outer, from_users, group_selection_threshold_col, outer_group_by_list) ==
       IF from_users = NullExpr
       THEN [f EXCEPT !.st = MakeColState(@),
                      !.unique_users_count_column = outer.unique_users_count_column,
                      !.threshold = MakeColRef(group_selection_threshold_col.column),
                      !.outer_aggregate_list =
                          Append(outer.list, group_selection_threshold_col),
                      !.outer_group_by_list = outer_group_by_list]
       ELSE [f EXCEPT !.unique_users_count_column = outer.unique_users_count_column,
                      !.threshold = from_users,
                      !.outer_aggregate_list = outer.list,
                      !.outer_group_by_list = outer_group_by_list]

TemplateOuterThreshold(n, f, cfg, outer) ==
    TemplateOuterAggregates(n, f, cfg, outer,
        ThresholdFromUniqueUsers(n, outer.unique_users_count_column, cfg),
        MakeGroupSelectionThresholdFunctionColumn(n, f.st),
        OuterGroupByList(n, f.injected_col_map))

\* Lines 2719-2798
TemplateOuter(n, f, cfg) ==
    TemplateOuterThreshold(n, f, cfg,
        OuterRewriteAggregateColumns(n.aggregate_list, Len(n.aggregate_list),
            f.injected_col_map, f.inner_uid_column, cfg))

TemplateSampleResult(f, r) ==
    [f EXCEPT !.st = Fail(@, r.status), !.input_scan = r.input_scan,
              !.options = r.options]

\* Lines 2800-2820
TemplateSample(n, f, cfg) ==
    TemplateSampleResult(f,
        AddCrossPartitionSampleScan(f.input_scan, f.max_groups_contributed,
            kDefaultMaxGroupsContributedOptionName(n.family), f.uid_column,
            CopyOptions(n), cfg))

\* The new scan is created and no table scan is associated with it.
CreateAggregateScanWithoutMap(n, f) ==
    [f EXCEPT !.scan = PrivateAggregateScan(n.family, n.cols, f.input_scan,
                           f.outer_group_by_list, f.outer_aggregate_list, f.threshold,
                           f.options, FALSE)]

\* CreateAggregateScanAndUpdateScanMap: every table scan recorded by the
\* per-user visitor is associated with the new scan.
CreateAggregateScanAndUpdateScanMap(n, f) ==
    LET result == PrivateAggregateScan(n.family, n.cols, f.input_scan,
                      f.outer_group_by_list, f.outer_aggregate_list, f.threshold,
                      f.options, FALSE)
    IN [f EXCEPT !.scan = result,
                 !.st.scan_map = @ \o
                     [i \in 1..Len(f.st.resolved_table_scans) |->
                         [table_scan |-> f.st.resolved_table_scans[i],
                          aggregate_scan |-> result]]]

\* RewriterVisitor::AttachExtraNodeFields
AttachExtraNodeFields(original, copy) ==
    [copy EXCEPT !.is_ordered = original.is_ordered]

\* Lines 2822-2830
TemplateCreate(n, f) ==
    LET created == CreateAggregateScanAndUpdateScanMap(n, f)
    IN [created EXCEPT !.scan = AttachExtraNodeFields(n, @),
                       !.st.resolved_table_scans = << >>]

\* The whole template.
VisitResolvedDifferentialPrivacyAggregateScanTemplate(n, st, cfg) ==
    AndThen(AndThen(AndThen(AndThen(TemplateOptions(n, Frame(st)),
                                    LAMBDA f : TemplatePerUser(n, f)),
                            LAMBDA f : TemplateOuter(n, f, cfg)),
                    LAMBDA f : TemplateSample(n, f, cfg)),
            LAMBDA f : TemplateCreate(n, f))

---------------------------------------------------------------------------
(* Inputs: private aggregate scans *)

\* Longest aggregate list of an input.
MaxAggregates == 2

Families == {"ANONYMIZATION", "DIFFERENTIAL_PRIVACY"}

Bounds01 == StructLiteral(<<"INT64", "INT64">>, <<Int64(0), Int64(1)>>)
Bounds05 == StructLiteral(<<"INT64", "INT64">>, <<Int64(0), Int64(5)>>)
ReportFormat(f) == Literal("ENUM", StringValue(f))

\* Scans under the aggregate: T1 with and without its uid selected, a filter
\* over T1, a join of T1 and T2 on their uids, and T3.
AggregateInputScans ==
    {T1WithUid, T1WithoutUid,
     FilterScan(<<XCol>>, T1WithoutUid, Equal(XCol, XCol)),
     JoinScan(<<XCol>>, "INNER", T1WithUid,
              TableScan("T2", <<Col(3, "y", "INT64"), Col(4, "uid", "INT64")>>,
                        <<1, 2>>, ""),
              Equal(UidCol, Col(4, "uid", "INT64"))),
     T3Scan}
PrivateTableScans == {T1WithUid, T1WithoutUid}

Call(sig, args, type) == [expr |-> AggregateFunctionCall(sig, args, type), type |-> type]

\* COUNT-shaped calls of both families, with and without bounds and reports.
CountCalls(family) ==
    IF family = "ANONYMIZATION"
    THEN {Call("FN_ANON_COUNT_STAR", << >>, "INT64"),
          Call("FN_ANON_COUNT_STAR", <<Lit(0), Lit(1)>>, "INT64"),
          Call("FN_ANON_COUNT", <<ColumnRef(XCol)>>, "INT64"),
          Call("FN_ANON_COUNT", <<ColumnRef(XCol), Lit(0), Lit(5)>>, "INT64"),
          Call("FN_ANON_COUNT", <<ColumnRef(UidCol), Lit(0), Lit(1)>>, "INT64"),
          Call("FN_ANON_COUNT_STAR_WITH_REPORT_JSON", <<Lit(0), Lit(1)>>, "JSON"),
          Call("FN_ANON_COUNT_WITH_REPORT_JSON", <<ColumnRef(XCol)>>, "JSON"),
          Call("FN_ANON_COUNT_STAR_WITH_REPORT_PROTO", <<Lit(0), Lit(1)>>, "PROTO"),
          Call("FN_ANON_COUNT_WITH_REPORT_PROTO", <<ColumnRef(XCol), Lit(0), Lit(5)>>,
               "PROTO")}
    ELSE {Call("FN_DIFFERENTIAL_PRIVACY_COUNT_STAR", << >>, "INT64"),
          Call("FN_DIFFERENTIAL_PRIVACY_COUNT_STAR", <<Bounds01>>, "INT64"),
          Call("FN_DIFFERENTIAL_PRIVACY_COUNT", <<ColumnRef(XCol)>>, "INT64"),
          Call("FN_DIFFERENTIAL_PRIVACY_COUNT", <<ColumnRef(XCol), Bounds05>>, "INT64"),
          Call("FN_DIFFERENTIAL_PRIVACY_COUNT", <<ColumnRef(UidCol), Bounds01>>, "INT64"),
          Call("FN_DIFFERENTIAL_PRIVACY_COUNT_STAR_REPORT_JSON",
               <<ReportFormat("JSON"), Bounds01>>, "JSON"),
          Call("FN_DIFFERENTIAL_PRIVACY_COUNT_REPORT_JSON",
               <<ColumnRef(XCol), ReportFormat("JSON")>>, "JSON"),
          Call("FN_DIFFERENTIAL_PRIVACY_COUNT_STAR_REPORT_PROTO",
               <<ReportFormat("PROTO")>>, "PROTO"),
          Call("FN_DIFFERENTIAL_PRIVACY_COUNT_REPORT_PROTO",
               <<ColumnRef(XCol), ReportFormat("PROTO"), Bounds05>>, "PROTO")}

OtherCalls(family) ==
    IF family = "ANONYMIZATION"
    THEN {Call("FN_ANON_SUM_INT64", <<ColumnRef(XCol)>>, "INT64"),
          Call("FN_ANON_SUM_INT64", <<Lit(1), Lit(0), Lit(1)>>, "INT64"),
          Call("FN_ANON_SUM_WITH_REPORT_JSON_INT64", <<ColumnRef(XCol), Lit(0), Lit(5)>>,
               "JSON"),
          Call("FN_ANON_AVG_DOUBLE", <<ColumnRef(XCol), Lit(0), Lit(5)>>, "DOUBLE"),
          Call("FN_ANON_VAR_POP_DOUBLE", <<ColumnRef(XCol)>>, "DOUBLE"),
          Call("FN_SUM_INT64", <<ColumnRef(XCol)>>, "INT64")}
    ELSE {Call("FN_DIFFERENTIAL_PRIVACY_SUM_INT64", <<ColumnRef(XCol)>>, "INT64"),
          Call("FN_DIFFERENTIAL_PRIVACY_SUM_INT64", <<Lit(1), Bounds01>>, "INT64"),
          Call("FN_DIFFERENTIAL_PRIVACY_AVG_DOUBLE", <<ColumnRef(XCol), Bounds05>>,
               "DOUBLE"),
          Call("FN_SUM_INT64", <<ColumnRef(XCol)>>, "INT64")}

\* Calls that are combined into longer aggregate lists.
PairedCalls(family) ==
    IF family = "ANONYMIZATION"
    THEN {Call("FN_ANON_COUNT_STAR", <<Lit(0), Lit(1)>>, "INT64"),
          Call("FN_ANON_COUNT_STAR_WITH_REPORT_JSON", <<Lit(0), Lit(1)>>, "JSON"),
          Call("FN_ANON_SUM_INT64", <<ColumnRef(XCol)>>, "INT64"),
          Call("FN_ANON_VAR_POP_DOUBLE", <<ColumnRef(XCol)>>, "DOUBLE")}
    ELSE {Call("FN_DIFFERENTIAL_PRIVACY_COUNT_STAR", <<Bounds01>>, "INT64"),
          Call("FN_DIFFERENTIAL_PRIVACY_COUNT", <<ColumnRef(UidCol), Bounds01>>, "INT64"),
          Call("FN_DIFFERENTIAL_PRIVACY_SUM_INT64", <<ColumnRef(XCol)>>, "INT64")}

AggregateColumnId(i) == 4 + i
AggregateListOf(calls) ==
    [i \in 1..Len(calls) |->
        ComputedColumn(Col(AggregateColumnId(i), "agg", calls[i].type), calls[i].expr)]

AggregateLists(family) ==
    {AggregateListOf(<<c>>) : c \in CountCalls(family) \cup OtherCalls(family)}
    \cup {AggregateListOf(cs) :
            cs \in UNION {[1..k -> PairedCalls(family)] : k \in 2..MaxAggregates}}

CountStarListOf(family) ==
    AggregateListOf(<<IF family = "ANONYMIZATION"
                      THEN Call("FN_ANON_COUNT_STAR", <<Lit(0), Lit(1)>>, "INT64")
                      ELSE Call("FN_DIFFERENTIAL_PRIVACY_COUNT_STAR", <<Bounds01>>,
                                "INT64")>>)

SomeAggregateLists(family) ==
    {AggregateListOf(<<c>>) : c \in PairedCalls(family)}

GroupColumn == Col(8, "g", "INT64")
GroupBy(e) == <<ComputedColumn(GroupColumn, e)>>

\* GROUP BY: nothing, a column, the uid, an expression.
GroupByLists(input) ==
    {<< >>, GroupBy(ColumnRef(XCol)),
     GroupBy(FunctionCallOfType("FN_ADD_INT64", <<ColumnRef(XCol), Lit(1)>>, "INT64"))}
    \cup IF ColumnListContains(input.cols, UidCol) /\ input.kind = "TableScan"
            /\ input.table = "T1"
         THEN {GroupBy(ColumnRef(UidCol))} ELSE {}

\* Values of an explicit max_groups_contributed option: NULL, values on both
\* sides of each end of the accepted range, literals of other types, and an
\* expression that is not a literal.
KappaValues ==
    {Literal("INT64", NullInt64), Literal("INT64", Int64Hi(0 - 1, 2147483647)),
     Lit(0), Lit(1), Lit(5), Lit(2147483646), Literal("INT64", Int32Max),
     Literal("INT64", Int64Hi(1, 0)),
     Literal("DOUBLE", Int64(5)), Literal("STRING", StringValue("5")),
     Literal("INT32", Int64(5)),
     [kind |-> "Parameter", name |-> "k", type |-> "INT64"],
     FunctionCallOfType("FN_ADD_INT64", <<Lit(1), Lit(1)>>, "INT64")}

KappaNames == {"max_groups_contributed", "kappa", "KAPPA", "Max_Groups_Contributed"}


\* Option lists with at most one max_groups_contributed option.
KappaOptionLists ==
    {<<Option(name, v)>> : name \in KappaNames, v \in KappaValues}
    \cup {<<Epsilon, Option("max_groups_contributed", v)>> : v \in KappaValues}

PlainOptionLists == {<< >>, <<Epsilon>>}

\* Option lists that set the option twice.
RepeatedKappaOptionLists ==
    {<<Option("max_groups_contributed", Lit(5)), Option(name, Lit(3))>> :
        name \in {"max_groups_contributed", "kappa"}}

\* Option lists that name the privacy unit column.
PrivacyUnitOptionLists ==
    {<<Option("privacy_unit_column", e)>> :
        e \in {ColumnRef(XCol), ColumnRef(Col(1, "z", "INT64")),
               GetStructField(ColumnRef(XCol), 0, "STRING"),
               GetStructField(ColumnRef(XCol), 0, "JSON"), Lit(1)}}
    \cup {<<Option("PRIVACY_UNIT_COLUMN", ColumnRef(XCol)), Epsilon,
            Option("privacy_unit_column", ColumnRef(XCol))>>,
          <<Epsilon, Option("privacy_unit_column", ColumnRef(XCol)),
            Option("max_groups_contributed", Lit(5))>>,
          <<Epsilon, Option("PRIVACY_UNIT_COLUMN", ColumnRef(XCol))>>}

\* Process defaults on both sides of each end of the range that is accepted.
DefaultKappaValues ==
    {Int64Hi(0 - 1, 2147483647), Int64(0), Int64(1), Int64(5), Int64(2147483646),
     Int32Max, Int64Hi(1, 0)}

FeatureConfigs ==
    {Config(d, a, dp, j) : d \in {Int64(0), Int64(5)}, a \in BOOLEAN,
                           dp \in BOOLEAN, j \in BOOLEAN}
DefaultConfigs == {Config(d, FALSE, FALSE, FALSE) : d \in DefaultKappaValues}

AggregateNode(family, input, group_by_list, aggregate_list, options) ==
    PrivateAggregateScan(family, ColumnsOf(group_by_list) \o ColumnsOf(aggregate_list),
                         input, group_by_list, aggregate_list, NullExpr, options,
                         FALSE)

\* Every option list and every process default, over a few queries.
OptionInputs(family) ==
    {<<AggregateNode(family, input, g, a, o), c>> :
        input \in PrivateTableScans,
        g \in {<< >>, GroupBy(ColumnRef(XCol))},
        a \in {CountStarListOf(family)},
        o \in KappaOptionLists \cup PlainOptionLists \cup RepeatedKappaOptionLists,
        c \in DefaultConfigs}

\* Every aggregate list and every setting of the language features.
AggregateListInputs(family) ==
    {<<AggregateNode(family, input, g, a, o), c>> :
        input \in PrivateTableScans,
        g \in {<< >>, GroupBy(ColumnRef(XCol))},
        a \in AggregateLists(family),
        o \in {<< >>, <<Epsilon, Option("max_groups_contributed", Lit(5))>>},
        c \in FeatureConfigs}

\* Every scan, GROUP BY list and source of the privacy unit.
PrivacyUnitInputs(family) ==
    UNION {{<<AggregateNode(family, input, g, a, o), c>> :
               g \in GroupByLists(input),
               a \in SomeAggregateLists(family),
               o \in PlainOptionLists \cup PrivacyUnitOptionLists,
               c \in {Config(Int64(0), FALSE, FALSE, FALSE),
                      Config(Int64(5), TRUE, TRUE, TRUE)}} :
           input \in AggregateInputScans}

\* A join whose left input is a join of T1 and T2 that does not equate their
\* uids, and whose right input is a scan of T1, alias r, without its uid.
T2Scan == TableScan("T2", <<Col(3, "y", "INT64"), Col(4, "uid", "INT64")>>, <<1, 2>>, "")
RightOfFailingLeft == TableScan("T1", <<Col(6, "x", "INT64")>>, <<2>>, "r")
JoinOverFailingLeft ==
    JoinScan(<<XCol>>, "INNER",
             JoinScan(<<XCol>>, "INNER", T1WithUid, T2Scan,
                      Equal(XCol, Col(3, "y", "INT64"))),
             RightOfFailingLeft, Equal(XCol, Col(6, "x", "INT64")))

\* Nodes of which more than one step would fail: an option that is not valid
\* over an input without privacy unit or with a join that is not valid.
FailingInputs(family) ==
    {<<AggregateNode(family, input, << >>, CountStarListOf(family), o), c>> :
        input \in {T3Scan, JoinOverFailingLeft, T1WithoutUid},
        o \in {<< >>, <<Option("max_groups_contributed", Lit(0))>>,
               <<Option("privacy_unit_column", Lit(1))>>},
        c \in {Config(Int64(5), FALSE, FALSE, FALSE),
               Config(Int64Hi(1, 0), FALSE, FALSE, FALSE)}}

AggregateInputs ==
    UNION {OptionInputs(family) \cup AggregateListInputs(family)
           \cup PrivacyUnitInputs(family) \cup FailingInputs(family) :
           family \in Families}

---------------------------------------------------------------------------
(* The rewrite of one private aggregate scan, step by step *)

InitAggregate ==
    /\ pc = "options"
    /\ \E input \in AggregateInputs : node = input[1] /\ config = input[2]
    /\ fr = Frame(InitState(MaxInputColumnId, NoSequence))

\* The next step is taken whatever the status.
AfterStepAlways(f, next) == next

AfterStep(f, next) == IF IsOk(f.st.status) THEN next ELSE "failed"

\* Look for max_groups_contributed in the options and validate it.
ValidateOptions ==
    /\ pc = "options"
    /\ fr' = TemplateOptions(node, fr)
    /\ pc' = AfterStep(fr', "per_user_transform")
    /\ UNCHANGED <<node, config>>

\* Create the per-user aggregate scan and populate the column map.
PerUserTransform ==
    /\ pc = "per_user_transform"
    /\ fr' = TemplatePerUser(node, fr)
    /\ pc' = AfterStep(fr', "outer")
    /\ UNCHANGED <<node, config>>

\* Rewrite the aggregate list for the cross-user scan, with its threshold.
OuterRewrite ==
    /\ pc = "outer"
    /\ fr' = TemplateOuter(node, fr, config)
    /\ pc' = AfterStep(fr', "sample")
    /\ UNCHANGED <<node, config>>

\* Copy the options and bound the groups a user contributes to.
CrossPartitionSample ==
    /\ pc = "sample"
    /\ fr' = TemplateSample(node, fr, config)
    /\ pc' = AfterStep(fr', "create")
    /\ UNCHANGED <<node, config>>

\* Create the new scan and record it for the table scans beneath it.
CreateScan ==
    /\ pc = "create"
    /\ fr' = TemplateCreate(node, fr)
    /\ pc' = "done"
    /\ UNCHANGED <<node, config>>

NextAggregate ==
    \/ ValidateOptions
    \/ PerUserTransform
    \/ OuterRewrite
    \/ CrossPartitionSample
    \/ CreateScan

SpecAggregate == InitAggregate /\ [][NextAggregate]_vars

\* The steps compose to the template.
StepsAreTheTemplate ==
    pc \in {"done", "failed"} =>
        fr = VisitResolvedDifferentialPrivacyAggregateScanTemplate(
                 node, InitState(MaxInputColumnId, NoSequence), config)

---------------------------------------------------------------------------
(* Properties of the rewrite of a private aggregate scan *)

\* The per-user aggregate scan, beneath the sample scan when there is one.
PerUserAggregateScan ==
    IF fr.input_scan.kind = "SampleScan" THEN fr.input_scan.input ELSE fr.input_scan

PerUserDone == pc \in {"outer", "sample", "create", "done"}
OuterDone == pc \in {"sample", "create", "done"}
\* The sample step has run, successfully or not.
SampleDone == pc \in {"create", "done"} \/ (pc = "failed" /\ fr.threshold # NullExpr)

\* The options of the node that set max_groups_contributed.
KappaOptions ==
    SelectSeq(node.options,
              LAMBDA o : IsMaxGroupsContributedOption(node.family, o.name))
\* The options forwarded whatever the sampling.
ForwardedOptions ==
    SelectSeq(node.options, LAMBDA o : ToLower(o.name) # "privacy_unit_column")

\* The expression of the privacy unit: the column found by the per-user
\* rewrite of the input, or else the privacy_unit_column option.
ResolvedUid ==
    IF IsInitialized(fr.inner_uid_column) THEN ColumnRef(fr.inner_uid_column)
    ELSE ExtractUidColumnFromOptions(node).result.value

\* The GROUP BY entries of the per-user aggregate scan that are the uid.
UidGroupings ==
    {i \in 1..Len(PerUserAggregateScan.group_by_list) :
        PerUserAggregateScan.group_by_list[i].expr = ResolvedUid}

\* C2 as stated: the GROUP BY list of every per-user aggregate scan has
\* exactly one entry whose expression is a bare reference to the resolved uid
\* column, whatever the original GROUP BY list and the source of the uid.
C2_GroupingInvariant ==
    PerUserDone =>
        /\ PerUserAggregateScan.kind = "AggregateScan"
        /\ Cardinality(UidGroupings) = 1

\* C7 as stated: without a max_groups_contributed option and with a process
\* default d in 1..2^31-1 the input of the new scan is a RESERVOIR sample of d
\* rows per uid over the per-user aggregate scan and one option with value d
\* follows the copied options; with the default 0 nothing is added.
C7_DefaultSampling ==
    (SampleDone /\ KappaOptions = << >>) =>
        LET d == config.default_anon_kappa_value
        IN /\ (ValueLess(Int64(0), d) /\ ~ValueLess(Int32Max, d)) =>
                 /\ pc # "failed"
                 /\ fr.input_scan =
                       SampleScan(PerUserAggregateScan.cols, PerUserAggregateScan,
                                  "RESERVOIR", Literal("INT64", d), "ROWS",
                                  <<ColumnRef(fr.uid_column)>>)
                 /\ PerUserAggregateScan.kind = "AggregateScan"
                 /\ fr.options = Append(ForwardedOptions,
                        Option("max_groups_contributed", Literal("INT64", d)))
           /\ d = Int64(0) =>
                 /\ pc # "failed"
                 /\ fr.input_scan.kind = "AggregateScan"
                 /\ fr.options = ForwardedOptions

ExplicitlyNull ==
    Len(KappaOptions) = 1 /\ KappaOptions[1].value = Literal("INT64", NullInt64)

\* C8: when max_groups_contributed is explicitly NULL the sample step succeeds
\* whatever the process default, the input of the new scan is the per-user
\* aggregate scan itself, and the options are the copied ones.
C8_ExplicitNull ==
    (SampleDone /\ ExplicitlyNull) =>
        /\ pc # "failed"
        /\ fr.input_scan.kind = "AggregateScan"
        /\ fr.options = ForwardedOptions
        /\ pc = "done" =>
              fr.scan.input.kind = "AggregateScan" /\ fr.scan.options = ForwardedOptions

\* An explicit NULL with a process default that would otherwise be adopted.
C8_Witness ==
    /\ pc = "done" /\ ExplicitlyNull
    /\ config.default_anon_kappa_value = Int64(5)
    /\ fr.scan.input.kind = "AggregateScan"
    /\ fr.scan.options = ForwardedOptions

\* The value of an option is an INT64 literal that is NULL or in 1..2^31-1.
InAcceptedRange(e) ==
    /\ e.kind = "Literal" /\ e.type = "INT64"
    /\ \/ e.value.null
       \/ (e.value.hi = 0 /\ e.value.lo >= 1 /\ e.value.lo <= 2147483647)

OptionsValidated == pc # "options"
NothingRewritten ==
    /\ fr.st.max_col_id = MaxInputColumnId
    /\ fr.st.resolved_table_scans = << >>
    /\ fr.input_scan = NullScan
    /\ fr.injected_col_map = << >>
    /\ fr.scan = NullScan

CountSignatures ==
    {"FN_ANON_COUNT_STAR", "FN_ANON_COUNT",
     "FN_ANON_COUNT_STAR_WITH_REPORT_JSON", "FN_ANON_COUNT_WITH_REPORT_JSON",
     "FN_ANON_COUNT_STAR_WITH_REPORT_PROTO", "FN_ANON_COUNT_WITH_REPORT_PROTO",
     "FN_DIFFERENTIAL_PRIVACY_COUNT_STAR", "FN_DIFFERENTIAL_PRIVACY_COUNT",
     "FN_DIFFERENTIAL_PRIVACY_COUNT_STAR_REPORT_JSON",
     "FN_DIFFERENTIAL_PRIVACY_COUNT_REPORT_JSON",
     "FN_DIFFERENTIAL_PRIVACY_COUNT_STAR_REPORT_PROTO",
     "FN_DIFFERENTIAL_PRIVACY_COUNT_REPORT_PROTO"}
CountStarSignatures ==
    {"FN_ANON_COUNT_STAR", "FN_ANON_COUNT_STAR_WITH_REPORT_JSON",
     "FN_ANON_COUNT_STAR_WITH_REPORT_PROTO", "FN_DIFFERENTIAL_PRIVACY_COUNT_STAR",
     "FN_DIFFERENTIAL_PRIVACY_COUNT_STAR_REPORT_JSON",
     "FN_DIFFERENTIAL_PRIVACY_COUNT_STAR_REPORT_PROTO"}

\* The SUM-shaped function of the family and report format of a COUNT.
SumFor(sig) ==
    CASE sig \in {"FN_ANON_COUNT_STAR", "FN_ANON_COUNT"} -> "anon_sum"
      [] sig \in {"FN_ANON_COUNT_STAR_WITH_REPORT_JSON",
                  "FN_ANON_COUNT_WITH_REPORT_JSON"} -> "$anon_sum_with_report_json"
      [] sig \in {"FN_ANON_COUNT_STAR_WITH_REPORT_PROTO",
                  "FN_ANON_COUNT_WITH_REPORT_PROTO"} -> "$anon_sum_with_report_proto"
      [] OTHER -> "$differential_privacy_sum"

\* The i-th aggregate: the original call, the cross-user call, the per-user entry.
OriginalCall(i) == node.aggregate_list[i].expr
OuterCall(i) == fr.outer_aggregate_list[i].expr
InnerEntry(i) == PerUserAggregateScan.aggregate_list[i]

\* C10: every COUNT-shaped privacy aggregate becomes, in the cross-user scan,
\* the SUM-shaped aggregate of the same family and report format over the
\* intermediate column of its per-user COUNT; for COUNT(*) a first argument is
\* inserted before the original ones, for every other call the first argument
\* is replaced and the others are kept.
C10_CountRewrite ==
    OuterDone =>
        \A i \in 1..Len(node.aggregate_list) :
            /\ fr.outer_aggregate_list[i].column = node.aggregate_list[i].column
            /\ OuterCall(i).args[1] = ColumnRef(InnerEntry(i).column)
            /\ OriginalCall(i).sig \in CountSignatures =>
                  /\ OuterCall(i).function = SumFor(OriginalCall(i).sig)
                  /\ InnerEntry(i).expr.function \in {"count", "$count_star"}
            /\ IF OriginalCall(i).sig \in CountStarSignatures
               THEN /\ Len(OuterCall(i).args) = Len(OriginalCall(i).args) + 1
                    /\ Tail(OuterCall(i).args) = OriginalCall(i).args
               ELSE /\ Len(OuterCall(i).args) = Len(OriginalCall(i).args)
                    /\ Tail(OuterCall(i).args) = Tail(OriginalCall(i).args)

\* COUNT(*) with a JSON report of the DIFFERENTIAL_PRIVACY family became a SUM
\* with the report format as its second argument.
C10_Witness ==
    /\ pc = "done"
    /\ OriginalCall(1).sig = "FN_DIFFERENTIAL_PRIVACY_COUNT_STAR_REPORT_JSON"
    /\ fr.scan.aggregate_list[1].expr.function = "$differential_privacy_sum"
    /\ Len(fr.scan.aggregate_list[1].expr.args) = 3
    /\ fr.scan.aggregate_list[1].expr.args[2] = ReportFormat("JSON")

---------------------------------------------------------------------------
(* Properties of the group selection threshold *)

\* The aggregates of the node that count the unique users, by position.
CountingUniqueUsers ==
    {i \in 1..Len(node.aggregate_list) :
        IsCountUniqueUsers(node.aggregate_list[i].expr, fr.inner_uid_column.id)}

ThresholdingEnabled ==
    config.FEATURE_ANONYMIZATION_THRESHOLDING
    \/ config.FEATURE_DIFFERENTIAL_PRIVACY_THRESHOLDING

\* The first of the first k aggregates that counts the unique users.
FirstCounting(k) ==
    IF ThresholdingEnabled /\ CountingUniqueUsers \cap 1..k # {}
    THEN node.aggregate_list[
             CHOOSE i \in CountingUniqueUsers \cap 1..k :
                 \A j \in CountingUniqueUsers \cap 1..k : i <= j].column
    ELSE NoColumn

\* The threshold is taken from the candidate and no aggregate is added.
ThresholdDerived ==
    /\ IsInitialized(fr.unique_users_count_column)
    /\ Len(fr.outer_aggregate_list) = Len(node.aggregate_list)
    /\ CASE fr.unique_users_count_column.type = "PROTO" ->
               fr.threshold = GetProtoField(
                   GetProtoField(ColumnRef(fr.unique_users_count_column), "value",
                                 "PROTO"), "int_value", "INT64")
         [] fr.unique_users_count_column.type = "JSON" ->
               /\ config.FEATURE_JSON_VALUE_EXTRACTION_FUNCTIONS
               /\ fr.threshold.kind = "FunctionCall"
               /\ fr.threshold.sig = "FN_JSON_TO_INT64"
               /\ fr.threshold.args[1].sig = "FN_JSON_QUERY_JSON"
               /\ fr.threshold.args[1].args[1] = ColumnRef(fr.unique_users_count_column)
         [] OTHER -> fr.threshold = ColumnRef(fr.unique_users_count_column)

\* The ids of the columns of the node and of the rewritten input.
ColumnIdsBefore ==
    {node.cols[i].id : i \in 1..Len(node.cols)}
    \cup {fr.input_scan.cols[i].id : i \in 1..Len(fr.input_scan.cols)}
    \cup {fr.outer_aggregate_list[i].column.id : i \in 1..Len(node.aggregate_list)}
    \cup 0..MaxInputColumnId

\* privacy_sum(1, bounds [0, 1])
IsSumOfOneBetween0And1(call) ==
    /\ call.kind = "AggregateFunctionCall"
    /\ call.args[1] = Literal("INT64", Int64(1))
    /\ IF node.family = "ANONYMIZATION"
       THEN /\ call.function = "anon_sum"
            /\ call.args = <<Literal("INT64", Int64(1)), Literal("INT64", Int64(0)),
                             Literal("INT64", Int64(1))>>
       ELSE /\ call.function = "$differential_privacy_sum"
            /\ Len(call.args) = 2
            /\ call.args[2].type = "STRUCT"
            /\ call.args[2].value.fields = <<Int64(0), Int64(1)>>

\* One aggregate is added, over a fresh column, and the threshold refers to it.
ThresholdSynthesized ==
    /\ Len(fr.outer_aggregate_list) = Len(node.aggregate_list) + 1
    /\ LET added == fr.outer_aggregate_list[Len(fr.outer_aggregate_list)]
       IN /\ IsSumOfOneBetween0And1(added.expr)
          /\ \A id \in ColumnIdsBefore : added.column.id > id
          /\ fr.threshold = ColumnRef(added.column)

\* C16: once the aggregate list is rewritten the node has one threshold
\* expression: either it is taken from the candidate column (a reference, a
\* proto field extraction, or a JSON extraction with the JSON functions
\* enabled) and no aggregate is added, or one privacy sum of 1 bounded by
\* [0, 1] is appended over a fresh column that the threshold refers to.  A
\* JSON candidate without the JSON functions, and no candidate, give the
\* appended sum; the scan created carries that threshold.
C16_OneThreshold ==
    OuterDone =>
        /\ fr.threshold # NullExpr
        /\ (ThresholdDerived /\ ~ThresholdSynthesized)
           \/ (ThresholdSynthesized /\ ~ThresholdDerived)
        /\ (~IsInitialized(fr.unique_users_count_column)
            \/ (fr.unique_users_count_column.type = "JSON"
                /\ ~config.FEATURE_JSON_VALUE_EXTRACTION_FUNCTIONS))
           => ThresholdSynthesized
        /\ pc = "done" =>
              /\ fr.scan.threshold = fr.threshold
              /\ fr.scan.aggregate_list = fr.outer_aggregate_list

\* A node whose candidate is a JSON report, the JSON functions disabled: the
\* sum is appended.
C16_Witness ==
    /\ pc = "done"
    /\ node.family = "ANONYMIZATION" /\ config.FEATURE_ANONYMIZATION_THRESHOLDING
    /\ fr.unique_users_count_column.type = "JSON"
    /\ ~config.FEATURE_JSON_VALUE_EXTRACTION_FUNCTIONS
    /\ ThresholdSynthesized

\* The threshold is extracted from a JSON report, from a proto report, and is
\* a reference to the candidate.
C16_DerivedReached(type) ==
    /\ pc = "done" /\ ThresholdDerived /\ fr.unique_users_count_column.type = type

\* C17: the candidate after the first k aggregates is the first of them that
\* counts the unique users, so a later one never replaces it; without
\* thresholding there is none; the candidate of the node is the one after
\* all its aggregates.
C17_FirstCandidate ==
    PerUserDone =>
        /\ \A k \in 0..Len(node.aggregate_list) :
              OuterRewriteAggregateColumns(node.aggregate_list, k, fr.injected_col_map,
                  fr.inner_uid_column, config).unique_users_count_column
              = FirstCounting(k)
        /\ OuterDone =>
              /\ fr.unique_users_count_column = FirstCounting(Len(node.aggregate_list))
              /\ ~ThresholdingEnabled => ~IsInitialized(fr.unique_users_count_column)

\* Two aggregates count the unique users, and the first one is the candidate
\* that the threshold refers to.
C17_Witness ==
    /\ pc = "done"
    /\ CountingUniqueUsers = {1, 2}
    /\ fr.unique_users_count_column = node.aggregate_list[1].column
    /\ node.aggregate_list[2].column # node.aggregate_list[1].column
    /\ fr.threshold = ColumnRef(node.aggregate_list[1].column)

---------------------------------------------------------------------------
(* Properties of the options of the new scan *)

\* The process default is adopted: the node sets no max_groups_contributed
\* and the default is positive.
DefaultAdopted ==
    KappaOptions = << >> /\ ValueLess(Int64(0), config.default_anon_kappa_value)

\* The positions of the options of the node that do not name the privacy unit
\* column.
ForwardedPositions ==
    {i \in 1..Len(node.options) : ToLower(node.options[i].name) # "privacy_unit_column"}

\* C18: the options of the new scan are the options of the node that are not
\* named privacy_unit_column in any case, in their order and as they were,
\* followed by one max_groups_contributed option with the process default
\* when, and only when, the default was adopted; none of them is named
\* privacy_unit_column.
C18_OptionForwarding ==
    pc \in {"create", "done"} =>
        /\ Len(fr.options) =
              Cardinality(ForwardedPositions) + (IF DefaultAdopted THEN 1 ELSE 0)
        /\ \A i \in ForwardedPositions :
              fr.options[Cardinality({j \in ForwardedPositions : j <= i})]
                  = node.options[i]
        /\ DefaultAdopted =>
              fr.options[Len(fr.options)] =
                  Option("max_groups_contributed",
                         Literal("INT64", config.default_anon_kappa_value))
        /\ \A i \in 1..Len(fr.options) :
              ToLower(fr.options[i].name) # "privacy_unit_column"
        /\ pc = "done" => fr.scan.options = fr.options

\* The privacy unit column option, written in upper case, is left out, the
\* option before it is kept and the default is appended.
C18_Witness ==
    /\ pc = "done"
    /\ node.family = "DIFFERENTIAL_PRIVACY"
    /\ node.options = <<Epsilon, Option("PRIVACY_UNIT_COLUMN", ColumnRef(XCol))>>
    /\ fr.scan.options = <<Epsilon, Option("max_groups_contributed", Lit(5))>>

---------------------------------------------------------------------------
(* Properties of a rewrite that fails *)

\* What the steps after the per-user transform produce is still absent.
NothingAggregated(f) ==
    /\ f.outer_aggregate_list = << >> /\ f.outer_group_by_list = << >>
    /\ f.threshold = NullExpr /\ f.options = << >>

\* The step taken fails.
StepFails == ~IsOk(fr'.st.status)

\* What is left by a step that fails, for each of the steps.
FailureOf(step) ==
    CASE step = "options" ->
            /\ fr'.st = Fail(fr.st, FindMaxGroupsContributed(node, Len(node.options)).status)
            /\ fr'.input_scan = NullScan /\ fr'.injected_col_map = << >>
            /\ NothingAggregated(fr')
      [] step = "per_user_transform" ->
            /\ fr'.input_scan = NullScan /\ fr'.injected_col_map = << >>
            /\ NothingAggregated(fr')
            /\ ~IsOk(ExtractUidColumnFromOptions(node).status) =>
                  fr'.st = Fail(fr.st, ExtractUidColumnFromOptions(node).status)
            /\ (IsOk(ExtractUidColumnFromOptions(node).status)
                /\ node.input = JoinOverFailingLeft) =>
                  /\ fr'.st = PerUserVisit(node.input.left, fr.st).st
                  /\ \A i \in 1..Len(fr'.st.resolved_table_scans) :
                        fr'.st.resolved_table_scans[i].alias # "r"
      [] step = "outer" -> FALSE
      [] step = "sample" ->
            /\ fr'.st = Fail(fr.st, fr'.st.status)
            /\ fr'.outer_aggregate_list = fr.outer_aggregate_list
            /\ fr'.threshold = fr.threshold
      [] OTHER -> FALSE

\* C21: a step is taken only when every step before it succeeded; a step that
\* fails leaves its error as the status, no rewritten scan and no association
\* in the map, and nothing of what the later steps produce: an option that is
\* not valid is reported with the input not visited, and the error of the
\* left input of a join with the right input not visited.
C21_FailFast ==
    [][/\ IsOk(fr.st.status)
       /\ StepFails =>
             /\ pc' = "failed"
             /\ fr'.scan = NullScan /\ fr'.st.scan_map = << >>
             /\ FailureOf(pc)]_vars

\* The left input of the join has failed, after the scans of its two tables,
\* and the option of the node was valid.
C21_Witness ==
    /\ pc = "failed"
    /\ node.input = JoinOverFailingLeft /\ node.options = << >>
    /\ fr.st.status.code = "INVALID_ARGUMENT"
    /\ Len(fr.st.resolved_table_scans) = 2
    /\ fr.st.max_col_id = MaxInputColumnId
    /\ fr.scan = NullScan

---------------------------------------------------------------------------
(* RewriterVisitor: the copy of the whole tree *)

Rewritten(scan, st) == [scan |-> scan, st |-> st]
TemplateRewritten(f) == Rewritten(f.scan, f.st)

\* The WITH entries of a WithScan are taken from the start of the list.
LocalWithEntriesOffsetZero(st) == 0

\* Line 2855: the entries of this WithScan start where the list ends now.
LocalWithEntriesOffset(st) == Len(st.with_entries)

\* Lines 2856-2862: a rewrite state is recorded for every entry of the WithScan.
RegisterWithEntries(with_entry_list, st) ==
    [st EXCEPT !.with_entries = @ \o
        [i \in 1..Len(with_entry_list) |-> WithEntryRewriteState(with_entry_list[i])]]

RECURSIVE RewriterVisit(_, _, _)

\* ResolvedASTDeepCopyVisitor::CopyVisitResolvedWithEntry
CopyVisitResolvedWithEntry(entry, st, cfg) ==
    LET sub == RewriterVisit(entry.with_subquery, st, cfg)
    IN [entry |-> WithEntry(entry.with_query_name, sub.scan), st |-> sub.st]

\* Every entry is taken from rewritten_entry_owned, copied or not.
RECURSIVE CopyWithEntriesOwned(_, _, _, _, _)
CopyWithEntriesOwned(n, local_with_entries_offset, k, st, cfg) ==
    IF k = 0 THEN [copied_entries |-> << >>, st |-> st]
    ELSE [copied_entries |->
              Append(CopyWithEntriesOwned(n, local_with_entries_offset, k - 1, st, cfg)
                         .copied_entries,
                     st.with_entries[local_with_entries_offset + k]
                         .rewritten_entry_owned),
          st |-> st]

\* Lines 2865-2878, for the first k entries of the node: the entries that were
\* not rewritten while the query was copied are copied now.
RECURSIVE CopyWithEntries(_, _, _, _, _)
CopyWithEntries(n, local_with_entries_offset, k, st, cfg) ==
    IF k = 0 THEN [copied_entries |-> << >>, st |-> st]
    ELSE
      LET before == CopyWithEntries(n, local_with_entries_offset, k - 1, st, cfg)
          i == local_with_entries_offset + k
          entry == before.st.with_entries[i]
      IN IF ~IsOk(before.st.status) THEN before
         ELSE IF entry.rewritten_entry = NullEntry
         THEN LET c == CopyVisitResolvedWithEntry(entry.original_entry, before.st, cfg)
              IN [copied_entries |-> Append(before.copied_entries, c.entry),
                  st |-> [c.st EXCEPT !.with_entries[i].rewritten_entry = c.entry]]
         ELSE [copied_entries |->
                   Append(before.copied_entries, entry.rewritten_entry_owned),
               st |-> [before.st EXCEPT
                          !.with_entries[i].rewritten_entry_owned = NullEntry]]

\* RewriterVisitor::VisitResolvedWithScan
RewriterVisitResolvedWithScan(n, st, cfg) ==
    LET local_with_entries_offset == LocalWithEntriesOffset(st)
        st1 == RegisterWithEntries(n.with_entry_list, st)
        subquery == RewriterVisit(n.query, st1, cfg)
    IN IF ~IsOk(subquery.st.status) THEN Rewritten(NullScan, subquery.st)
       ELSE LET entries == CopyWithEntries(n, local_with_entries_offset,
                                           Len(n.with_entry_list), subquery.st, cfg)
                copy == WithScan(n.cols, entries.copied_entries, subquery.scan,
                                 n.recursive, FALSE)
            IN IF ~IsOk(entries.st.status) THEN Rewritten(NullScan, entries.st)
               ELSE Rewritten(AttachExtraNodeFields(n, copy), entries.st)

\* ResolvedASTDeepCopyVisitor: the copy of a scan is the scan with its input
\* scans replaced by their copies.
CopyVisitWithInput(n, st, cfg) ==
    LET input == RewriterVisit(n.input, st, cfg)
    IN IF ~IsOk(input.st.status) THEN Rewritten(NullScan, input.st)
       ELSE Rewritten([n EXCEPT !.input = input.scan], input.st)

CopyVisitResolvedJoinScan(n, st, cfg) ==
    LET left == RewriterVisit(n.left, st, cfg)
        right == RewriterVisit(n.right, left.st, cfg)
    IN IF ~IsOk(left.st.status) THEN Rewritten(NullScan, left.st)
       ELSE IF ~IsOk(right.st.status) THEN Rewritten(NullScan, right.st)
       ELSE Rewritten([n EXCEPT !.left = left.scan, !.right = right.scan], right.st)

\* The dispatch of the visitor on the kind of the scan.
RewriterVisit(n, st, cfg) ==
    CASE n.kind = "PrivateAggregateScan" ->
            TemplateRewritten(
                VisitResolvedDifferentialPrivacyAggregateScanTemplate(n, st, cfg))
      [] n.kind = "WithScan" -> RewriterVisitResolvedWithScan(n, st, cfg)
      [] n.kind = "JoinScan" -> CopyVisitResolvedJoinScan(n, st, cfg)
      [] n.kind \in {"TableScan", "WithRefScan"} -> Rewritten(n, st)
      [] OTHER -> CopyVisitWithInput(n, st, cfg)

\* RewriteInternal: a RewriterVisitor is run over the tree.
RewriteInternal(tree, cfg, st) == RewriterVisit(tree, st, cfg)

---------------------------------------------------------------------------
(* Inputs: whole trees *)

RefCols == <<Col(6, "c", "INT64")>>

\* Scans that read a table or one of the WITH entries named in refs.
BaseScans(refs) == {T1WithUid, T3Scan} \cup {WithRefScan(RefCols, name) : name \in refs}

UnaryOver(S) ==
    S \cup {FilterScan(q.cols, q, Equal(q.cols[1], q.cols[1])) : q \in S}
      \cup {ProjectScan(q.cols, << >>, q) : q \in S}

Queries(refs) ==
    UnaryOver(BaseScans(refs))
    \cup {JoinScan(l.cols \o r.cols, "INNER", l, r, NullExpr) :
             l \in BaseScans(refs), r \in BaseScans(refs)}

\* A WithScan with one entry.
SingleWithScans(refs, name) ==
    {WithScan(q.cols, <<WithEntry(name, e)>>, q, FALSE, ordered) :
        e \in UnaryOver(BaseScans(refs)), q \in Queries(refs \cup {name}),
        ordered \in BOOLEAN}

InnerWithScans ==
    {WithScan(q.cols, <<WithEntry("w3", e)>>, q, FALSE, FALSE) :
        e \in {T3Scan, WithRefScan(RefCols, "w1")},
        q \in {WithRefScan(RefCols, "w3"), WithRefScan(RefCols, "w2"),
               JoinScan(RefCols \o RefCols, "INNER", WithRefScan(RefCols, "w1"),
                        WithRefScan(RefCols, "w3"), NullExpr)}}

\* WithScans with two entries and a WithScan nested in the query, in an entry,
\* or in both.
NestedWithScans ==
    {WithScan(q.cols, <<WithEntry("w1", T1WithUid), WithEntry("w2", e)>>, q, FALSE,
              ordered) :
        e \in {T3Scan, WithRefScan(RefCols, "w1"),
               WithScan(RefCols, <<WithEntry("w4", T3Scan)>>,
                        WithRefScan(RefCols, "w4"), FALSE, TRUE)},
        q \in InnerWithScans \cup {FilterScan(i.cols, i, NullExpr) : i \in InnerWithScans}
              \cup {JoinScan(i.cols \o j.cols, "INNER", i, j, NullExpr) :
                       i \in InnerWithScans, j \in {WithRefScan(RefCols, "w2")}},
        ordered \in BOOLEAN}

SomeAggregateNode ==
    AggregateNode("ANONYMIZATION", T1WithUid, << >>, CountStarListOf("ANONYMIZATION"),
                  << >>)

\* Trees that contain a private aggregate scan.
PrivateTrees ==
    {SomeAggregateNode,
     ProjectScan(SomeAggregateNode.cols, << >>, SomeAggregateNode),
     WithScan(SomeAggregateNode.cols, <<WithEntry("w1", T3Scan)>>, SomeAggregateNode,
              FALSE, TRUE),
     WithScan(RefCols, <<WithEntry("w1", SomeAggregateNode)>>,
              WithRefScan(RefCols, "w1"), FALSE, FALSE)}

\* Private aggregate scans over references to WITH entries.

\* Number of private aggregate scans visited in the query of a WithScan.
MaxWithNodes == 2

\* A reference to the entry: as many columns as the subquery of the entry,
\* with ids from a on.
RefTo(entry, a) ==
    WithRefScan([i \in 1..Len(entry.with_subquery.cols) |->
                    Col(a + i - 1, entry.with_subquery.cols[i].name,
                        entry.with_subquery.cols[i].type)],
                entry.with_query_name)

W1Table == WithEntry("w1", T1WithUid)
W1Implicit == WithEntry("w1", T1WithoutUid)
W1Plain == WithEntry("w1", T3Scan)
W2Table == WithEntry("w2", T1WithUid)
\* SELECT x, uid FROM T1: the uid is the second column.
W2Project == WithEntry("w2", ProjectScan(<<XCol, UidCol>>, << >>, T1WithUid))
\* An entry that reads another entry.
W2Over(entry) ==
    WithEntry("w2", FilterScan(RefTo(entry, 3).cols, RefTo(entry, 3), NullExpr))

WithEntryLists ==
    {<<W1Table, W2Project>>, <<W1Table, W2Over(W1Table)>>, <<W1Plain, W2Table>>,
     <<W1Implicit, W2Over(W1Implicit)>>, <<W1Plain, W2Over(W1Plain)>>}

\* The scans under a private aggregate scan: a reference, a filter over a
\* reference, a join of two references on their columns at one position, and
\* a WithScan with an entry of its own, named as no other entry is, whose
\* query refers to that entry or to another one.
WithNodeInputs(entries, name) ==
    LET refs(a) == {RefTo(entries[i], a) : i \in 1..Len(entries)}
    IN refs(5)
       \cup UNION {{WithScan(q.cols, <<WithEntry(name, e)>>, q, FALSE, FALSE) :
                        q \in {RefTo(WithEntry(name, e), 5), RefTo(entries[1], 5)}} :
                    e \in {T1WithUid, T1WithoutUid}}
       \cup {FilterScan(r.cols, r, NullExpr) : r \in refs(5)}
       \cup UNION {{JoinScan(l.cols \o r.cols, "INNER", l, r,
                             Equal(l.cols[p], r.cols[p])) :
                        p \in 1..(IF Len(l.cols) < Len(r.cols)
                                  THEN Len(l.cols) ELSE Len(r.cols))} :
                       l \in refs(5), r \in refs(7)}

WithAggregateNode(input) ==
    AggregateNode("ANONYMIZATION", input, << >>, CountStarListOf("ANONYMIZATION"), << >>)

\* WithScans whose query is a private aggregate scan over references to the
\* entries, or a join of such a scan with another one or with a reference.
PrivateWithQueries(entries) ==
    LET first == {WithAggregateNode(i) : i \in WithNodeInputs(entries, "v1")}
        second == {WithAggregateNode(i) : i \in
                      {RefTo(entries[i], 7) : i \in 1..Len(entries)}}
                  \cup {RefTo(entries[i], 7) : i \in 1..Len(entries)}
    IN first \cup {JoinScan(a.cols \o b.cols, "INNER", a, b, NullExpr) :
                      a \in first, b \in second}

PrivateWithTrees ==
    UNION {{WithScan(q.cols, entries, q, FALSE, ordered) :
               q \in PrivateWithQueries(entries), ordered \in BOOLEAN} :
           entries \in WithEntryLists}

TreeInputs ==
    Queries({}) \cup SingleWithScans({}, "w1") \cup NestedWithScans \cup PrivateTrees
    \cup PrivateWithTrees

RECURSIVE ContainsPrivateAggregate(_)
ContainsPrivateAggregate(n) ==
    CASE n.kind = "PrivateAggregateScan" -> TRUE
      [] n.kind = "WithScan" ->
            \/ ContainsPrivateAggregate(n.query)
            \/ \E i \in 1..Len(n.with_entry_list) :
                  ContainsPrivateAggregate(n.with_entry_list[i].with_subquery)
      [] n.kind = "JoinScan" ->
            ContainsPrivateAggregate(n.left) \/ ContainsPrivateAggregate(n.right)
      [] n.kind \in {"TableScan", "WithRefScan"} -> FALSE
      [] OTHER -> ContainsPrivateAggregate(n.input)

RECURSIVE WithScanDepth(_)
WithScanDepth(n) ==
    CASE n.kind = "WithScan" ->
            LET below == {WithScanDepth(n.query)} \cup
                         {WithScanDepth(n.with_entry_list[i].with_subquery) :
                             i \in 1..Len(n.with_entry_list)}
            IN 1 + CHOOSE d \in below : \A e \in below : e <= d
      [] n.kind = "JoinScan" ->
            IF WithScanDepth(n.left) > WithScanDepth(n.right)
            THEN WithScanDepth(n.left) ELSE WithScanDepth(n.right)
      [] n.kind \in {"TableScan", "WithRefScan"} -> 0
      [] OTHER -> WithScanDepth(n.input)

---------------------------------------------------------------------------
(* The rewrite of a whole tree *)

InitCopy ==
    /\ pc = "rewrite"
    /\ node \in TreeInputs
    /\ config \in {NoConfig, Config(Int64(5), TRUE, TRUE, TRUE)}
    /\ fr = NoFrame

\* AnonymizationRewriter::Rewrite and RewriteForAnonymization: the visitor is
\* run over the tree with maps from table scans to aggregate scans that it
\* fills in place; st.scan_map is these maps, empty at the call.
Rewrite ==
    /\ pc = "rewrite"
    /\ fr' = RewriteInternal(node, config, InitState(MaxInputColumnId, NoSequence))
    /\ pc' = "rewritten"
    /\ UNCHANGED <<node, config>>

NextCopy == Rewrite

SpecCopy == InitCopy /\ [][NextCopy]_vars

\* C1: the rewrite of a tree without a private aggregate scan succeeds and
\* returns a tree equal to the input: the same nodes, children, column lists
\* and WITH entries in the same order; no column is allocated and no table
\* scan is recorded.
C1_NoOp ==
    (pc = "rewritten" /\ ~ContainsPrivateAggregate(node)) =>
        /\ IsOk(fr.st.status)
        /\ fr.scan = node
        /\ fr.st.max_col_id = MaxInputColumnId
        /\ fr.st.scan_map = << >>

\* A WithScan with two entries and a WithScan nested in its query was copied.
C1_Witness ==
    /\ pc = "rewritten" /\ ~ContainsPrivateAggregate(node)
    /\ node.kind = "WithScan" /\ Len(node.with_entry_list) = 2
    /\ WithScanDepth(node) = 2 /\ node.is_ordered
    /\ fr.scan = node

---------------------------------------------------------------------------
(* Properties of the WITH entries of a rewritten tree *)

\* The names of the WITH entries that the scan refers to.
RECURSIVE RefNames(_)
RefNames(scan) ==
    CASE scan.kind = "WithRefScan" -> {scan.with_query_name}
      [] scan.kind = "TableScan" -> {}
      [] scan.kind = "JoinScan" -> RefNames(scan.left) \cup RefNames(scan.right)
      [] scan.kind = "WithScan" ->
            RefNames(scan.query)
            \cup UNION {RefNames(scan.with_entry_list[i].with_subquery) :
                           i \in 1..Len(scan.with_entry_list)}
      [] OTHER -> RefNames(scan.input)

\* The names the scan refers to, directly or through the entries it refers to.
ReachableNames(scan, entries) ==
    LET through(S) ==
            S \cup UNION {RefNames(entries[i].with_subquery) :
                             i \in {j \in 1..Len(entries) :
                                       entries[j].with_query_name \in S}}
    IN through(through(RefNames(scan)))

\* The names of the entries of the WithScans in the scan.
RECURSIVE DeclaredNames(_)
DeclaredNames(scan) ==
    CASE scan.kind \in {"WithRefScan", "TableScan"} -> {}
      [] scan.kind = "JoinScan" ->
            DeclaredNames(scan.left) \cup DeclaredNames(scan.right)
      [] scan.kind = "WithScan" ->
            DeclaredNames(scan.query)
            \cup {scan.with_entry_list[i].with_query_name :
                     i \in 1..Len(scan.with_entry_list)}
      [] OTHER -> DeclaredNames(scan.input)

\* The position of the $uid recorded with a rewritten entry among the columns
\* of the subquery of the rewritten entry.
CachedUidPosition(entry) ==
    FirstIndex(entry.rewritten_entry.with_subquery.cols,
               LAMBDA c : c.id = entry.rewritten_uid.column.id)

IsCached(entry) == entry.rewritten_entry # NullEntry
NameOf(entry) == entry.original_entry.with_query_name

\* The WITH entries of the WithScans in the tree.
RECURSIVE AllEntries(_)
AllEntries(n) ==
    CASE n.kind = "WithScan" ->
            Range(n.with_entry_list) \cup AllEntries(n.query)
            \cup UNION {AllEntries(n.with_entry_list[i].with_subquery) :
                           i \in 1..Len(n.with_entry_list)}
      [] n.kind = "JoinScan" -> AllEntries(n.left) \cup AllEntries(n.right)
      [] n.kind \in {"TableScan", "WithRefScan"} -> {}
      [] OTHER -> AllEntries(n.input)

\* The input scans of the private aggregate scans in the tree.
RECURSIVE PrivateInputs(_)
PrivateInputs(n) ==
    CASE n.kind = "PrivateAggregateScan" -> {n.input}
      [] n.kind = "WithScan" ->
            PrivateInputs(n.query)
            \cup UNION {PrivateInputs(n.with_entry_list[i].with_subquery) :
                           i \in 1..Len(n.with_entry_list)}
      [] n.kind = "JoinScan" -> PrivateInputs(n.left) \cup PrivateInputs(n.right)
      [] n.kind \in {"TableScan", "WithRefScan"} -> {}
      [] OTHER -> PrivateInputs(n.input)

\* The names of the entries referred to from inside a private aggregate scan
\* of the tree, directly or through other entries.
PrivateRefNames(tree) ==
    LET through(S) ==
            S \cup UNION {RefNames(e.with_subquery) :
                             e \in {x \in AllEntries(tree) : x.with_query_name \in S}}
    IN through(through(UNION {RefNames(i) : i \in PrivateInputs(tree)}))

\* The scan that the per-user visitor returned for the input of a private
\* aggregate scan, in the rewritten scan.
PerUserInputOf(out) ==
    IF out.input.kind = "SampleScan" THEN out.input.input.input ELSE out.input.input

\* What is recorded for the entry of that name when the rewrite ends.
CachedEntry(name) == fr.st.with_entries[FindWithEntry(fr.st.with_entries, name)]

\* The rewritten entry b is the entry a in its per-user form: the columns of a
\* and, if the entry has a $uid, the $uid among its columns.
IsPerUserForm(a, b) ==
    /\ b = CachedEntry(a.with_query_name).rewritten_entry
    /\ SubSeq(b.with_subquery.cols, 1, Len(a.with_subquery.cols)) = a.with_subquery.cols
    /\ IsInitialized(CachedEntry(a.with_query_name).rewritten_uid.column) =>
          ColumnListContains(b.with_subquery.cols,
                             CachedEntry(a.with_query_name).rewritten_uid.column)

\* Every WithScan of the tree in has its entries in the tree out: as many, in
\* the same order, none missing, with their names; an entry that Equal(a) says
\* is to be an equal copy is one, and an entry with a name in names, or of a
\* WithScan inside a private aggregate scan, is in its per-user form.
RECURSIVE WithEntriesKept(_, _, _, _, _)
WithEntriesKept(in, out, names, inside, strict) ==
    CASE in.kind = "WithScan" ->
            /\ out.kind = "WithScan"
            /\ Len(out.with_entry_list) = Len(in.with_entry_list)
            /\ \A i \in 1..Len(in.with_entry_list) :
                  /\ out.with_entry_list[i].kind = "WithEntry"
                  /\ out.with_entry_list[i].with_query_name
                        = in.with_entry_list[i].with_query_name
                  /\ (/\ in.with_entry_list[i].with_query_name \notin names
                      /\ ~ContainsPrivateAggregate(in.with_entry_list[i].with_subquery)
                      /\ (strict \/ ~inside)) =>
                        out.with_entry_list[i] = in.with_entry_list[i]
                  /\ (in.with_entry_list[i].with_query_name \in names \/ inside) =>
                        IsPerUserForm(in.with_entry_list[i], out.with_entry_list[i])
                  /\ (in.with_entry_list[i].with_query_name \notin names /\ ~inside) =>
                        WithEntriesKept(in.with_entry_list[i].with_subquery,
                                        out.with_entry_list[i].with_subquery,
                                        names, inside, strict)
            /\ WithEntriesKept(in.query, out.query, names, inside, strict)
      [] in.kind = "PrivateAggregateScan" ->
            /\ out.kind = "PrivateAggregateScan"
            /\ WithEntriesKept(in.input, PerUserInputOf(out), names, TRUE, strict)
      [] in.kind = "JoinScan" ->
            /\ out.kind = "JoinScan"
            /\ WithEntriesKept(in.left, out.left, names, inside, strict)
            /\ WithEntriesKept(in.right, out.right, names, inside, strict)
      [] in.kind \in {"TableScan", "WithRefScan"} -> TRUE
      [] OTHER -> WithEntriesKept(in.input, out.input, names, inside, strict)

\* C14, as stated: every entry that is not referred to from inside a private
\* aggregate scan is emitted as an equal copy.
C14_AsStated ==
    (pc = "rewritten" /\ IsOk(fr.st.status)) =>
        WithEntriesKept(node, fr.scan, PrivateRefNames(node), FALSE, TRUE)

\* C14: after a rewrite that succeeded, every WithScan of the input has its
\* entries in the output: as many, in the same order, none missing, each with
\* its name.  An entry of a WithScan outside the private aggregate scans that
\* is not referred to from inside a private aggregate scan, and has none in
\* it, is an equal copy; an entry that is referred to from inside one, and
\* every entry of a WithScan that lies inside one, is in its per-user form.
C14_WithEntriesPreserved ==
    (pc = "rewritten" /\ IsOk(fr.st.status)) =>
        WithEntriesKept(node, fr.scan, PrivateRefNames(node), FALSE, FALSE)

\* A WithScan with two entries, the first referred to from under a private
\* aggregate scan and the second not, was rewritten.
C14_Witness ==
    /\ pc = "rewritten" /\ IsOk(fr.st.status)
    /\ node.kind = "WithScan" /\ Len(node.with_entry_list) = 2
    /\ ContainsPrivateAggregate(node.query)
    /\ PrivateRefNames(node) = {"w1"}
    /\ fr.scan.kind = "WithScan"
    /\ IsPerUserForm(node.with_entry_list[1], fr.scan.with_entry_list[1])
    /\ IsInitialized(CachedEntry("w1").rewritten_uid.column)
    /\ fr.scan.with_entry_list[2] = node.with_entry_list[2]

---------------------------------------------------------------------------
(* The private aggregate scans in the query of a WithScan, one after another *)

\* The state when the query of the WithScan is visited: the entries are
\* recorded, none is rewritten.
WithFrame(entries) ==
    [Frame(RegisterWithEntries(entries, InitState(MaxInputColumnId, NoSequence)))
        EXCEPT !.scan = NullScan] @@ [nodes |-> << >>, with_entry_list |-> entries]

\* The entries of the WithScan whose query is visited.
OriginalEntries == fr.with_entry_list

\* The resolver gives every WITH entry of a statement a name of its own.
FreshName == "v" \o ToString(Len(fr.nodes) + 1)

InitWith ==
    /\ pc = "with"
    /\ node = NullScan
    /\ config = NoConfig
    /\ fr \in {WithFrame(entries) : entries \in WithEntryLists}

\* RewriterVisitor::VisitResolvedAnonymizedAggregateScan, for the next private
\* aggregate scan of the query.
VisitAggregate ==
    /\ pc = "with"
    /\ IsOk(fr.st.status)
    /\ Len(fr.nodes) < MaxWithNodes
    /\ \E input \in WithNodeInputs(OriginalEntries, FreshName) :
          /\ node' = WithAggregateNode(input)
          /\ fr' = VisitResolvedDifferentialPrivacyAggregateScanTemplate(
                       node', fr.st, config)
                   @@ [nodes |-> Append(fr.nodes, node'),
                       with_entry_list |-> fr.with_entry_list]
    /\ UNCHANGED <<pc, config>>

NextWith == VisitAggregate

SpecWith == InitWith /\ [][NextWith]_vars

---------------------------------------------------------------------------
(* Properties of the references to WITH entries *)

\* The scans of tables with a privacy unit in the scan, the entries of the
\* WithScans in it included; references are not followed.
RECURSIVE RecordedTableScans(_)
RecordedTableScans(scan) ==
    CASE scan.kind = "TableScan" ->
            IF SupportsAnonymization(scan.table) THEN {scan} ELSE {}
      [] scan.kind = "WithRefScan" -> {}
      [] scan.kind = "JoinScan" ->
            RecordedTableScans(scan.left) \cup RecordedTableScans(scan.right)
      [] scan.kind = "WithScan" ->
            RecordedTableScans(scan.query)
            \cup UNION {RecordedTableScans(scan.with_entry_list[i].with_subquery) :
                           i \in 1..Len(scan.with_entry_list)}
      [] OTHER -> RecordedTableScans(scan.input)

\* The table scans in the scan, of any table.
RECURSIVE TableScans(_)
TableScans(scan) ==
    CASE scan.kind = "TableScan" -> {scan}
      [] scan.kind = "WithRefScan" -> {}
      [] scan.kind = "JoinScan" -> TableScans(scan.left) \cup TableScans(scan.right)
      [] scan.kind = "WithScan" ->
            TableScans(scan.query)
            \cup UNION {TableScans(scan.with_entry_list[i].with_subquery) :
                           i \in 1..Len(scan.with_entry_list)}
      [] OTHER -> TableScans(scan.input)

\* The table scans that the rewritten scan reads: its own and those of the
\* rewritten entries it refers to, directly or through other entries.
ConsumedTableScans(scan, with_entries) ==
    TableScans(scan)
    \cup UNION {TableScans(with_entries[i].rewritten_entry.with_subquery) :
                   i \in {j \in 1..Len(with_entries) :
                             /\ IsCached(with_entries[j])
                             /\ NameOf(with_entries[j]) \in
                                   ReachableNames(scan,
                                       [k \in 1..Len(with_entries) |->
                                           with_entries[k].original_entry])}}

\* The associations of the map with the private aggregate scan.
AssociatedWith(scan_map, aggregate_scan) ==
    {scan_map[i].table_scan :
        i \in {j \in 1..Len(scan_map) :
                  [scan_map[j].aggregate_scan EXCEPT
                      !.is_ordered = aggregate_scan.is_ordered] = aggregate_scan}}

\* C20, as stated: every table scan that the per-user scan of the new private
\* aggregate scan reads, of a table with or without a privacy unit, in an
\* entry rewritten before or not, is associated with the new scan.
C20_AsStated ==
    [][(VisitAggregate /\ IsOk(fr'.st.status)) =>
          ConsumedTableScans(PerUserInputOf(fr'.scan), fr'.st.with_entries)
              \subseteq AssociatedWith(fr'.st.scan_map, fr'.scan)
      ]_vars

\* C20: the rewrite of a private aggregate scan adds to the map, in front of
\* nothing and after what it held, one association with the new scan for each
\* scan of a table with a privacy unit that the per-user visitor visited: the
\* table scans of the per-user scan and of the entries rewritten for this
\* scan.  The table scans of an entry rewritten for an earlier scan, and the
\* scans of tables without a privacy unit, are not associated with the new scan.
C20_TableScanAssociation ==
    [][(VisitAggregate /\ IsOk(fr'.st.status)) =>
          /\ Len(fr'.st.scan_map) >= Len(fr.st.scan_map)
          /\ SubSeq(fr'.st.scan_map, 1, Len(fr.st.scan_map)) = fr.st.scan_map
          /\ \A j \in (Len(fr.st.scan_map) + 1)..Len(fr'.st.scan_map) :
                [fr'.st.scan_map[j].aggregate_scan EXCEPT
                    !.is_ordered = fr'.scan.is_ordered] = fr'.scan
          /\ {fr'.st.scan_map[j].table_scan :
                 j \in (Len(fr.st.scan_map) + 1)..Len(fr'.st.scan_map)}
               = RecordedTableScans(PerUserInputOf(fr'.scan))
                 \cup UNION {RecordedTableScans(
                                 fr'.st.with_entries[i].rewritten_entry.with_subquery) :
                                i \in {j \in 1..Len(fr.st.with_entries) :
                                          /\ ~IsCached(fr.st.with_entries[j])
                                          /\ IsCached(fr'.st.with_entries[j])}}
          /\ fr'.st.resolved_table_scans = << >>
      ]_vars

\* Two private aggregate scans over references to the entry w2, which reads
\* T1: T1 is associated with the first of the new scans and not with the second.
C20_Witness ==
    /\ pc = "with" /\ Len(fr.nodes) = 2 /\ Succeeded
    /\ \A k \in 1..2 : RefNames(fr.nodes[k].input) = {"w2"}
    /\ TableScans(CachedEntry("w2").rewritten_entry.with_subquery) = {T1WithUid}
    /\ Len(fr.st.scan_map) = 1
    /\ fr.st.scan_map[1].table_scan = T1WithUid
    /\ fr.st.scan_map[1].aggregate_scan # fr.scan

\* C13, as stated: an entry is rewritten only at a reference to it from the
\* scan under a private aggregate scan.
C13_AsStated ==
    [][VisitAggregate =>
          \A i \in 1..Len(fr'.st.with_entries) :
             (IsCached(fr'.st.with_entries[i])
              /\ (i <= Len(fr.st.with_entries) => ~IsCached(fr.st.with_entries[i])))
             => NameOf(fr'.st.with_entries[i])
                   \in ReachableNames(node'.input, OriginalEntries)
      ]_vars

\* C13: in a sequence of private aggregate scans that refer to WITH entries,
\* an entry that was rewritten is never rewritten again: its rewritten form
\* and its $uid stay as they are and no table scan is visited for it; an
\* entry recorded by the WithScan above is rewritten only by a scan that refers
\* to it, directly or through another entry, and is rewritten when such a scan
\* has been rewritten; an entry of a WithScan under the private aggregate scan
\* is recorded and rewritten when that WithScan is visited, referred to or not;
\* the $uid of a reference is the column of the reference at the position that
\* the $uid of the rewritten entry has among the columns of the entry.
C13_Memoization ==
    [][VisitAggregate =>
          /\ Len(fr'.st.with_entries) >= Len(fr.st.with_entries)
          /\ \A i \in 1..Len(fr.st.with_entries) :
                /\ NameOf(fr'.st.with_entries[i]) = NameOf(fr.st.with_entries[i])
                /\ IsCached(fr.st.with_entries[i]) =>
                      fr'.st.with_entries[i] = fr.st.with_entries[i]
                /\ (~IsCached(fr.st.with_entries[i])
                    /\ IsCached(fr'.st.with_entries[i])) =>
                      NameOf(fr.st.with_entries[i])
                          \in ReachableNames(node'.input, OriginalEntries)
                /\ (IsOk(fr'.st.status)
                    /\ NameOf(fr.st.with_entries[i])
                          \in ReachableNames(node'.input, OriginalEntries)) =>
                      /\ IsCached(fr'.st.with_entries[i])
                      /\ fr'.st.with_entries[i].rewritten_entry.with_query_name
                            = NameOf(fr.st.with_entries[i])
                      /\ fr'.st.with_entries[i].rewritten_entry_owned
                            = fr'.st.with_entries[i].rewritten_entry
          /\ \A i \in (Len(fr.st.with_entries) + 1)..Len(fr'.st.with_entries) :
                /\ NameOf(fr'.st.with_entries[i]) \in DeclaredNames(node'.input)
                /\ IsCached(fr'.st.with_entries[i])
          /\ \A i \in 1..Len(fr'.st.with_entries) :
                (/\ node'.input.kind = "WithRefScan"
                 /\ node'.input.with_query_name = NameOf(fr'.st.with_entries[i])
                 /\ IsCached(fr'.st.with_entries[i])
                 /\ IsInitialized(fr'.st.with_entries[i].rewritten_uid.column)
                 /\ CachedUidPosition(fr'.st.with_entries[i])
                       <= Len(node'.input.cols)) =>
                   /\ IsOk(fr'.st.status)
                   /\ fr'.inner_uid_column =
                         node'.input.cols[CachedUidPosition(fr'.st.with_entries[i])]
          /\ (/\ DeclaredNames(node'.input) = {}
              /\ \A i \in 1..Len(fr.st.with_entries) :
                    NameOf(fr.st.with_entries[i])
                        \in ReachableNames(node'.input, OriginalEntries)
                    => IsCached(fr.st.with_entries[i])) =>
                fr'.st.scan_map = fr.st.scan_map
      ]_vars

\* Two private aggregate scans over references to w2, whose $uid is its second
\* column: the second scan took the $uid from the entry rewritten for the
\* first, and the table scan of the entry was visited once.
C13_Witness ==
    /\ pc = "with" /\ Len(fr.nodes) = 2 /\ Succeeded
    /\ \A k \in 1..2 : /\ fr.nodes[k].input.kind = "WithRefScan"
                       /\ fr.nodes[k].input.with_query_name = "w2"
    /\ fr.st.with_entries[2].rewritten_uid.column = UidCol
    /\ CachedUidPosition(fr.st.with_entries[2]) = 2
    /\ fr.inner_uid_column = node.input.cols[2]
    /\ Len(fr.st.scan_map) = 1

---------------------------------------------------------------------------
(* ColumnFactory, on its own *)

\* Greatest initial max-seen column id of a factory.
MaxInitialColumnId == 3
\* Greatest number of ids the shared sequence has given out before the factory
\* is constructed.
MaxSequenceStart == 5
\* Number of MakeCol calls on the factory.
MaxMakeCols == 3
\* Number of ids taken from the shared sequence by its other users.
MaxOtherIds == 2

\* ColumnFactory factory(max_col_id) / ColumnFactory factory(max_col_id,
\* &sequence), the sequence having given out 0 .. seq-1.
ColumnFactoryFrame(max_col_id, seq) ==
    [st |-> InitState(max_col_id, seq), scan |-> NullScan,
     initial_max_col_id |-> max_col_id, initial_seq |-> seq,
     ids |-> << >>, others |-> << >>]

InitColumnFactory ==
    /\ pc = "factory"
    /\ node = NullScan
    /\ config = NoConfig
    /\ \E max_col_id \in 0..MaxInitialColumnId :
       \E seq \in {NoSequence} \cup 0..MaxSequenceStart :
          fr = ColumnFactoryFrame(max_col_id, seq)

\* factory.MakeCol(...): the id of the column is recorded.
FactoryMakeCol ==
    /\ pc = "factory"
    /\ Len(fr.ids) < MaxMakeCols
    /\ fr' = [fr EXCEPT !.st = MakeColState(fr.st),
                        !.ids = Append(@, MakeCol(fr.st, "column", "STRING").id)]
    /\ UNCHANGED <<pc, node, config>>

\* sequence.GetNext(), by another user of the shared sequence: the value is
\* recorded with the number of MakeCol calls made before.
SequenceGetNext ==
    /\ pc = "factory"
    /\ fr.st.seq # NoSequence
    /\ Len(fr.others) < MaxOtherIds
    /\ fr' = [fr EXCEPT !.st.seq = @ + 1,
                        !.others = Append(@, [id |-> fr.st.seq, after |-> Len(fr.ids)])]
    /\ UNCHANGED <<pc, node, config>>

NextColumnFactory == FactoryMakeCol \/ SequenceGetNext

SpecColumnFactory == InitColumnFactory /\ [][NextColumnFactory]_vars

\* C15: every id that MakeCol returns is greater than the initial max-seen id
\* and than every id returned before; max_column_id() is the last id returned;
\* what the shared sequence yields after a call is greater than every id
\* returned up to then, and an id returned is greater than everything the
\* sequence yielded before the call.
C15_Freshness ==
    pc = "factory" =>
        /\ \A k \in 1..Len(fr.ids) :
              /\ fr.ids[k] > fr.initial_max_col_id
              /\ \A j \in 1..(k - 1) : fr.ids[j] < fr.ids[k]
              /\ fr.initial_seq # NoSequence => fr.ids[k] >= fr.initial_seq
        /\ fr.st.max_col_id =
              IF fr.ids = << >> THEN fr.initial_max_col_id ELSE fr.ids[Len(fr.ids)]
        /\ fr.st.seq # NoSequence =>
              \A k \in 1..Len(fr.ids) : fr.st.seq > fr.ids[k]
        /\ \A o \in 1..Len(fr.others) : \A k \in 1..Len(fr.ids) :
              IF k <= fr.others[o].after
              THEN fr.others[o].id > fr.ids[k]
              ELSE fr.others[o].id < fr.ids[k]

\* A factory whose sequence was behind its max-seen id made a column, another
\* user took an id from the sequence, and the factory made a second column.
C15_Witness ==
    /\ pc = "factory"
    /\ fr.initial_seq # NoSequence /\ fr.initial_seq < fr.initial_max_col_id
    /\ Len(fr.ids) = 2 /\ Len(fr.others) = 1 /\ fr.others[1].after = 1
    /\ fr.ids[1] = fr.initial_max_col_id + 1
    /\ fr.others[1].id = fr.ids[1] + 1
    /\ fr.ids[2] = fr.ids[1] + 2

\* The three cases of the tests: no sequence from 10 is out of the bounds of
\* the ids drawn; a sequence behind (0 given out, max-seen 3) and a sequence
\* ahead (5 given out, max-seen 0).  The first call comes before any other
\* user of the sequence.
C15_TestCases ==
    (pc = "factory" /\ Len(fr.ids) >= 1
        /\ \A o \in 1..Len(fr.others) : fr.others[o].after >= 1) =>
        /\ fr.initial_seq = NoSequence => fr.ids[1] = fr.initial_max_col_id + 1
        /\ (fr.initial_seq # NoSequence /\ fr.initial_seq <= fr.initial_max_col_id) =>
              fr.ids[1] = fr.initial_max_col_id + 1
        /\ (fr.initial_seq # NoSequence /\ fr.initial_seq > fr.initial_max_col_id) =>
              fr.ids[1] = fr.initial_seq

---------------------------------------------------------------------------
(* Properties of the source of the privacy unit *)

\* The options of the node that are named privacy_unit_column, by position.
PrivacyUnitOptions ==
    {i \in 1..Len(node.options) : ToLower(node.options[i].name) = "privacy_unit_column"}

\* The options that the rewriter reads the privacy unit from: those of a
\* differential privacy node.
PrivacyUnitOptionsRead ==
    IF node.family = "DIFFERENTIAL_PRIVACY" THEN PrivacyUnitOptions ELSE {}

\* A table under the node declares a privacy unit.
TableDeclaresPrivacyUnit ==
    \E t \in TableScans(node.input) : SupportsAnonymization(t.table)

Finished == pc \in {"done", "failed"}
FailedWithUserError == pc = "failed" /\ fr.st.status.code = "INVALID_ARGUMENT"

\* The expression of the $uid entry that the per-user aggregate scan groups by.
GroupedUid ==
    PerUserAggregateScan.group_by_list[Len(PerUserAggregateScan.group_by_list)].expr

\* The expression is a reference to the privacy unit column of a table scan
\* of the rewritten input.
IsTableUid(expr) ==
    /\ expr.kind = "ColumnRef"
    /\ \E t \in TableScans(PerUserAggregateScan.input) :
          /\ SupportsAnonymization(t.table)
          /\ \E k \in 1..Len(t.cols) :
                /\ t.cols[k] = expr.column
                /\ t.column_index_list[k] = Catalog[t.table].userid

\* The sources of the privacy unit and what they give, the options being the
\* given ones.
PrivacyUnitSourceRule(options) ==
    /\ pc = "done" =>
          \/ (Cardinality(options) = 1 /\ ~TableDeclaresPrivacyUnit)
          \/ (options = {} /\ TableDeclaresPrivacyUnit)
    /\ (Finished /\ Cardinality(options) > 1) => FailedWithUserError
    /\ (Finished /\ options # {} /\ TableDeclaresPrivacyUnit) => FailedWithUserError
    /\ (Finished /\ options = {} /\ ~TableDeclaresPrivacyUnit) => FailedWithUserError
    /\ PerUserDone =>
          IF options = {} THEN IsTableUid(GroupedUid)
          ELSE \A i \in options : GroupedUid = node.options[i].value

\* C19 as stated: the privacy_unit_column options of every private aggregate
\* node are a source of the privacy unit.
C19_AsStated == PrivacyUnitSourceRule(PrivacyUnitOptions)

\* C19: a node is rewritten only with exactly one source of the privacy unit,
\* the sources being the tables under the node and, for a differential
\* privacy node, its privacy_unit_column option: the option set more than
\* once, the option with a table that declares a privacy unit, and neither of
\* them, end in a user error; with one source the per-user aggregate scan
\* groups by it.  The option of an anonymization node is not read.
C19_PrivacyUnitSource == PrivacyUnitSourceRule(PrivacyUnitOptionsRead)

\* A differential privacy node over a table without privacy unit, with the
\* option: the per-user scan groups by the value of the option.
C19_Witness ==
    /\ pc = "done"
    /\ node.family = "DIFFERENTIAL_PRIVACY"
    /\ Cardinality(PrivacyUnitOptions) = 1 /\ ~TableDeclaresPrivacyUnit
    /\ GroupedUid = ColumnRef(XCol)

---------------------------------------------------------------------------
(* Properties of the subquery expressions of the per-user subtree *)

\* The scan reads user data at some depth: a table or a table-valued function
\* with a privacy unit, or a private aggregate of either family.
RECURSIVE ReadsUserData(_)
ReadsUserData(scan) ==
    \/ scan.kind = "TableScan" /\ SupportsAnonymization(scan.table)
    \/ scan.kind = "TVFScan" /\ SignatureSupportsAnonymization(scan.signature)
    \/ scan.kind = "PrivateAggregateScan"
    \/ \E i \in 1..Len(ChildScans(scan)) : ReadsUserData(ChildScans(scan)[i])
    \/ \E i \in 1..Len(ChildExprs(scan)) :
         \E j \in 1..Len(SubqueryExprs(ChildExprs(scan)[i])) :
            ReadsUserData(SubqueryExprs(ChildExprs(scan)[i])[j].subquery)

SubqueryDone == pc = "per_user_done" /\ node \in SubqueryInputs
\* The subquery expression of the input, and the input without it.
SubqueryOf(scan) == SubqueryExprs(ChildExprs(scan)[1])[1]
WithoutSubquery(scan) ==
    CASE scan.kind = "FilterScan" -> [scan EXCEPT !.filter_expr = Lit(1)]
      [] scan.kind = "ProjectScan" -> [scan EXCEPT !.expr_list[1].expr = Lit(1)]
SubqueryKept ==
    /\ Succeeded
    /\ ChildExprs(fr.scan) = ChildExprs(node)
    /\ fr.uid = PerUserVisit(WithoutSubquery(node),
                             PerUserState(fr.st.select_with_mode_name)).uid

\* C22, as stated: a subquery expression that reads a table or a table-valued
\* function with a privacy unit, or holds a private aggregate of either
\* family, at any depth, fails the rewrite with a user error; any other
\* subquery expression is copied as it is and leaves the uid as it was.
C22_AsStated ==
    SubqueryDone =>
        IF ReadsUserData(SubqueryOf(node).subquery) THEN UserErrorRaised
        ELSE SubqueryKept

---------------------------------------------------------------------------
(* Properties of the rewrite of a ProjectScan *)

ProjectDone == pc = "per_user_done" /\ node \in ProjectInputs
\* What the visit of the input of the scan returned.
InputVisited == PerUserVisit(node.input, PerUserState(fr.st.select_with_mode_name))
\* The entries of the list that compute the field path of the uid.
PathEntries(uid, list) ==
    {i \in 1..Len(list) : uid.value_table_uid # NullExpr
                          /\ list[i].expr = uid.value_table_uid}
\* The uid column after the substitution: the column of the first entry that
\* computes the field path of the uid, if there is one.
SubstitutedUidColumn(uid, list) ==
    IF PathEntries(uid, list) = {} THEN uid.column
    ELSE list[CHOOSE i \in PathEntries(uid, list) :
                  \A j \in PathEntries(uid, list) : i <= j].column
MustSelectUid ==
    /\ fr.st.status.code = "INVALID_ARGUMENT"
    /\ fr.st.status.msg = "Subqueries must explicitly SELECT the userid column"
    /\ fr.scan = NullScan

\* C23: with a uid beneath it, a ProjectScan is rewritten if and only if the
\* uid column, after the substitution of the uid expressions, is by its id
\* among the columns of the scan; then the columns stay as they were and the
\* alias of the uid is cleared, otherwise the rewrite fails with the user
\* error that asks to select the userid column.  Without a uid beneath it
\* the scan is copied as it is.
C23_ProjectRule ==
    ProjectDone /\ IsOk(InputVisited.st.status) =>
        IF ~IsInitialized(InputVisited.uid.column)
        THEN Succeeded /\ fr.scan = node /\ fr.uid = NoUid
        ELSE LET c == SubstitutedUidColumn(InputVisited.uid, node.expr_list)
             IN IF \E i \in 1..Len(node.cols) : node.cols[i].id = c.id
                THEN /\ Succeeded
                     /\ fr.scan.cols = node.cols
                     /\ fr.scan.input = InputVisited.scan
                     /\ fr.uid.column = c
                     /\ fr.uid.alias = ""
                ELSE MustSelectUid

\* A projection over an aliased value table selects a column that computes
\* the privacy unit and is rewritten.
C23_Witness ==
    /\ ProjectDone /\ IsOk(InputVisited.st.status)
    /\ InputVisited.uid.alias = "v"
    /\ InputVisited.uid.value_table_uid # NullExpr
    /\ Succeeded /\ fr.uid.alias = "" /\ fr.uid.column.id \in {3, 4}

---------------------------------------------------------------------------
(* Properties of the substitution of the uid expressions *)

\* The list after the substitution, as the rewritten projection holds it.
SubstitutedList == fr.scan.expr_list

\* C26, as stated: for a uid that is a field path of a value table, every
\* entry of the list whose expression is that path, also the second and
\* later ones, becomes a reference to the uid column, each entry keeps its
\* column and the other entries stay as they were; for a uid that is a
\* physical column the list stays as it was.
C26_AsStated ==
    ProjectDone /\ Succeeded /\ IsInitialized(InputVisited.uid.column) =>
        /\ Len(SubstitutedList) = Len(node.expr_list)
        /\ \A i \in 1..Len(node.expr_list) :
              /\ SubstitutedList[i].column = node.expr_list[i].column
              /\ SubstitutedList[i].expr =
                   IF i \in PathEntries(InputVisited.uid, node.expr_list)
                   THEN ColumnRef(InputVisited.uid.column)
                   ELSE node.expr_list[i].expr

---------------------------------------------------------------------------
(* Properties of the rewrite of a nested AggregateScan *)

NestedAggregateDone == pc = "per_user_done" /\ node \in AggregateScanInputs
\* The entries of the group by list that are plain references to the uid.
UidEntries(uid, list) ==
    {i \in 1..Len(list) : list[i].expr.kind = "ColumnRef"
                          /\ list[i].expr.column.id = uid.column.id}

\* C24, as stated: with a physical uid beneath a nested AggregateScan, the
\* uid becomes the column of a group by entry that is a plain reference to it,
\* without alias when the scan has that column in its column list; when no
\* entry is a plain reference to the uid, the uid returned holds no column.
C24_AsStated ==
    NestedAggregateDone /\ IsInitialized(InputVisited.uid.column)
    /\ InputVisited.uid.value_table_uid = NullExpr =>
        /\ Succeeded
        /\ IF UidEntries(InputVisited.uid, node.group_by_list) # {}
           THEN /\ \E i \in UidEntries(InputVisited.uid, node.group_by_list) :
                      fr.uid.column = node.group_by_list[i].column
                /\ ColumnListContains(node.cols, fr.uid.column) => fr.uid.alias = ""
           ELSE ~IsInitialized(fr.uid.column)

---------------------------------------------------------------------------
(* Properties of the rewrite of a TVFScan *)

TVFDone == pc = "per_user_done" /\ node \in ColumnTVFScans
UidName == node.signature.userid_column_name_path[1]
\* The positions of the schema that have the name of the uid column.
UidPositions ==
    {k \in 1..Len(node.signature.columns) : node.signature.columns[k].name = UidName}
StrictlyIncreasing(list) == \A i \in 1..(Len(list) - 1) : list[i] < list[i + 1]
\* The list without its element at position k.
Without(list, k) ==
    [i \in 1..(Len(list) - 1) |-> IF i < k THEN list[i] ELSE list[i + 1]]

\* The uid column was inserted: one fresh column at the position of the one
\* new index, which is that of the uid in the schema; the other columns and
\* indexes are the ones of the scan, in their order.
UidInserted ==
    /\ Succeeded
    /\ Len(fr.scan.cols) = Len(node.cols) + 1
    /\ Len(fr.scan.column_index_list) = Len(node.column_index_list) + 1
    /\ \E k \in 1..Len(fr.scan.cols) :
          /\ fr.scan.column_index_list[k] \in UidPositions
          /\ fr.scan.cols[k].id > MaxInputColumnId
          /\ fr.scan.cols[k] = fr.uid.column
          /\ Without(fr.scan.cols, k) = node.cols
          /\ Without(fr.scan.column_index_list, k) = node.column_index_list

\* C25, as stated: a table-valued function that returns columns and names
\* its uid column: a uid column that the scan has is reused; one that it has
\* not is inserted so that columns and indexes stay aligned and the indexes
\* stay strictly increasing, at whatever position of the schema the uid is;
\* a name that the schema has not, or a path of more than one name, is a
\* user error.
C25_AsStated ==
    TVFDone /\ SignatureSupportsAnonymization(node.signature) =>
        IF Len(node.signature.userid_column_name_path) > 1 \/ UidPositions = {}
        THEN UserErrorRaised
        ELSE IF \E i \in 1..Len(node.cols) : node.column_index_list[i] \in UidPositions
        THEN Succeeded /\ fr.scan = node /\ ColumnListContains(node.cols, fr.uid.column)
        ELSE UidInserted /\ StrictlyIncreasing(fr.scan.column_index_list)

---------------------------------------------------------------------------
(* The type of the privacy unit *)

\* The types of the privacy units, and the tables that have a privacy unit
\* column, or a field of their value, of each type.
UnitTypes == {"INT64", "UINT64", "JSON"}
TableOfType == [INT64 |-> "T1", UINT64 |-> "T4", JSON |-> "T5"]
ValueTableOfType == [INT64 |-> "V1", JSON |-> "V5"]
ValueTypeOfType == [INT64 |-> "STRUCT_V", JSON |-> "STRUCT_J"]

\* Scans with a privacy unit of the type: its table, the uid selected or not,
\* its value table, and a table-valued function that returns it as a
\* column, selected or not, or as a field of its value.
UidFirst(type) == TVFSignature(Schema(2, 1, type), FALSE, <<"c1">>)
UnitScans(type) ==
    {TableScan(TableOfType[type],
               <<Col(1, "uid", type),
                 Col(2, Catalog[TableOfType[type]].columns[2].name, "INT64")>>,
               <<1, 2>>, ""),
     TableScan(TableOfType[type],
               <<Col(2, Catalog[TableOfType[type]].columns[2].name, "INT64")>>,
               <<2>>, ""),
     TVFScan(<<Col(1, "c1", type), Col(2, "c2", "INT64")>>, "F", UidFirst(type),
             <<1, 2>>, ""),
     TVFScan(<<Col(2, "c2", "INT64")>>, "F", UidFirst(type), <<2>>, "")}
    \cup IF type \in DOMAIN ValueTableOfType
         THEN {TableScan(ValueTableOfType[type], <<ValueCol(ValueTableOfType[type])>>,
                         <<1>>, ""),
               TVFScan(<<Col(1, "value", ValueTypeOfType[type])>>, "F",
                       TVFSignature(<<[name |-> "value",
                                       type |-> ValueTypeOfType[type]]>>,
                                    TRUE, <<"uid">>),
                       <<1>>, "")}
         ELSE {}
\* A scan without privacy unit that has a column of the type, which the
\* privacy_unit_column option of the node names.
UnitOptionScan(type) ==
    TVFScan(<<Col(1, "c1", type), Col(2, "c2", "INT64")>>, "F",
            TVFSignature(Schema(2, 1, type), FALSE, << >>), <<1, 2>>, "")
UnitOption(type) == <<Option("privacy_unit_column", ColumnRef(Col(1, "c1", type)))>>

\* Nodes whose privacy unit is of the type.
UnitNodes(family, type) ==
    {AggregateNode(family, input, << >>, CountStarListOf(family), << >>) :
        input \in UnitScans(type)}
    \cup IF family = "DIFFERENTIAL_PRIVACY"
         THEN {AggregateNode(family, UnitOptionScan(type), << >>,
                             CountStarListOf(family), UnitOption(type))}
         ELSE {}

InitUnitType ==
    /\ pc = "options"
    /\ \E family \in Families, type \in UnitTypes : node \in UnitNodes(family, type)
    /\ config = Config(Int64(5), FALSE, FALSE, FALSE)
    /\ fr = Frame(InitState(MaxInputColumnId, NoSequence))

SpecUnitType == InitUnitType /\ [][NextAggregate]_vars

UnitUngroupable ==
    \E family \in Families, type \in UnitTypes :
        ~SupportsGrouping(type) /\ node \in UnitNodes(family, type)

\* C27, as stated: a node whose privacy unit is of a type that does not
\* support grouping fails with a user error, whether the privacy unit is a
\* column of a table, a field of the value of a value table, a column or a
\* field of the value of a table-valued function, selected or not, or the
\* column named by the privacy_unit_column option.
C27_AsStated ==
    pc \in {"done", "failed"} /\ UnitUngroupable =>
        pc = "failed" /\ fr.st.status.code = "INVALID_ARGUMENT"

---------------------------------------------------------------------------
(* Properties of the injected column map *)

\* The entries of the aggregate list and of the group by list of the node.
NodeEntries == node.aggregate_list \o node.group_by_list
\* The entries of the per-user aggregate scan that come from them: its
\* aggregate list and its group by list without the entry of the uid.
PerUserEntries ==
    PerUserAggregateScan.aggregate_list
    \o SubSeq(PerUserAggregateScan.group_by_list, 1, Len(node.group_by_list))
\* The column that the entry is mapped to.
Injected(entry) == MapAt(fr.injected_col_map, entry.column)

\* C28: every column of the aggregate list and of the group by list of the
\* node is mapped to a column of its own that the input does not have; the
\* per-user aggregate scan computes the entry into that column, with one
\* argument, or none for a count of rows; the aggregates and the group by
\* entries of the new scan refer to that column.
C28_InjectedColumns ==
    OuterDone =>
        /\ Len(fr.injected_col_map) = Len(NodeEntries)
        /\ Len(PerUserEntries) = Len(NodeEntries)
        /\ \A i \in 1..Len(NodeEntries) :
              /\ MapHas(fr.injected_col_map, NodeEntries[i].column)
              /\ Injected(NodeEntries[i]).id > MaxInputColumnId
              /\ PerUserEntries[i].column = Injected(NodeEntries[i])
              /\ \A j \in 1..Len(NodeEntries) :
                    Injected(NodeEntries[i]) = Injected(NodeEntries[j]) => i = j
        /\ \A i \in 1..Len(node.aggregate_list) :
              /\ fr.outer_aggregate_list[i].column = node.aggregate_list[i].column
              /\ fr.outer_aggregate_list[i].expr.args[1] =
                    ColumnRef(Injected(node.aggregate_list[i]))
              /\ PerUserEntries[i].expr.args =
                    IF IsCountStarFunction(node.aggregate_list[i].expr.sig) THEN << >>
                    ELSE <<node.aggregate_list[i].expr.args[1]>>
        /\ Len(fr.outer_group_by_list) = Len(node.group_by_list)
        /\ \A i \in 1..Len(node.group_by_list) :
              /\ fr.outer_group_by_list[i].column = node.group_by_list[i].column
              /\ fr.outer_group_by_list[i].expr =
                    ColumnRef(Injected(node.group_by_list[i]))

\* A node with two aggregates, one of them a count of rows, and a group by
\* entry has been rewritten.
C28_Witness ==
    /\ pc = "done"
    /\ Len(node.aggregate_list) = 2 /\ Len(node.group_by_list) = 1
    /\ \E i \in 1..2 : IsCountStarFunction(node.aggregate_list[i].expr.sig)
    /\ \E i \in 1..2 : ~IsCountStarFunction(node.aggregate_list[i].expr.sig)
    /\ Len(fr.injected_col_map) = 3

---------------------------------------------------------------------------
(* The shape of the new scan *)

\* The input scan of the node as the per-user visitor rewrites it.
RewrittenInput ==
    PerUserVisit(node.input, InitState(MaxInputColumnId, NoSequence)).scan
\* The aggregates of the node that collect an array for each user.
ArrayAggregates ==
    {i \in 1..Len(node.aggregate_list) :
        HasInnerAggregateArray(node.aggregate_list[i].expr.sig)}
\* A value of max_groups_contributed is in force: the option, when it is
\* there and is not NULL, or else the default, when it is positive.
SamplingInForce ==
    IF Len(KappaOptions) = 1 THEN ~KappaOptions[1].value.value.null
    ELSE ValueLess(Int64(0), config.default_anon_kappa_value)
\* What an aggregate is ordered by: the values of its order_by arguments.
OrderedBy(call) ==
    {call.named[k].value : k \in {j \in 1..Len(call.named) : call.named[j].name = "order_by"}}

\* C29: the new scan has the columns of the node; its input is the per-user
\* aggregate scan, beneath one sample scan exactly when a value of
\* max_groups_contributed is in force; the input of the per-user aggregate
\* scan is the rewritten input of the node, beneath one projection that
\* computes a random column exactly when an aggregate collects an array, and
\* every such aggregate is ordered by that column.
C29_Shape ==
    pc = "done" =>
        /\ fr.scan.cols = node.cols
        /\ fr.scan.input.kind = IF SamplingInForce THEN "SampleScan" ELSE "AggregateScan"
        /\ SamplingInForce => fr.scan.input.input.kind = "AggregateScan"
        /\ LET per_user == IF SamplingInForce THEN fr.scan.input.input ELSE fr.scan.input
               input == per_user.input
           IN IF ArrayAggregates = {}
              THEN input = RewrittenInput
              ELSE /\ input.kind = "ProjectScan"
                   /\ input.input = RewrittenInput
                   /\ Len(input.expr_list) = 1
                   /\ input.expr_list[1].expr.kind = "FunctionCall"
                   /\ input.expr_list[1].expr.function = "rand"
                   /\ input.cols = Append(RewrittenInput.cols, input.expr_list[1].column)
                   /\ input.expr_list[1].column.id > MaxInputColumnId
                   /\ \A i \in ArrayAggregates :
                         OrderedBy(per_user.aggregate_list[i].expr) =
                             {ColumnRef(input.expr_list[1].column)}

\* Two aggregates that collect arrays have been rewritten beneath a sample
\* scan.
C29_Witness ==
    /\ pc = "done"
    /\ Cardinality(ArrayAggregates) = 2
    /\ fr.scan.input.kind = "SampleScan"
    /\ fr.scan.input.input.input.kind = "ProjectScan"

\* A node without such an aggregate and with sampling switched off.
C29_WitnessPlain ==
    /\ pc = "done"
    /\ ArrayAggregates = {}
    /\ fr.scan.input.kind = "AggregateScan"

---------------------------------------------------------------------------
(* The maps of the caller when the rewrite fails *)

\* The rewrite has returned an error.
RewriteFailed == pc = "rewritten" /\ ~IsOk(fr.st.status)

\* C30 as stated: when the rewrite of a tree fails, the maps from table scans
\* to aggregate scans that the caller handed in have no entry added by the
\* rewrite.
C30_AsStated == RewriteFailed => fr.st.scan_map = << >>

===========================================================================
